---- MODULE Spec2Model ----
(***************************************************************************)
(* StackIt: the vote ledger, the comment tree with its notification        *)
(* fan-out, the deletion cascades of questions and users, the writers of   *)
(* the role column and the token-and-session identity resolver, as request *)
(* handlers that run against one relational store.  Every `await prisma...`*)
(* of a handler is one atomic step on the store; the steps of different    *)
(* requests interleave freely.  A `prisma.$transaction` is one step.  A    *)
(* run is either concurrent or serial (`serial`); a serial run also        *)
(* remembers the request answered before the current one (`prev`).         *)
(***************************************************************************)
EXTENDS Integers, FiniteSets, Sequences, Bags, TLC

\* ---------------------------------------------------------------- bounds
MaxReq == 2          \* request slots, i.e. requests that can be in flight together
MaxOps == 2          \* requests started in one behaviour, after those that built the initial store
MaxComments == 2     \* a comment request is accepted while Comment.id has not passed this
MaxClock == 4        \* the clock stops ticking here
MaxQuestions == 3    \* a question is created while Question.id has not passed this

\* ------------------------------------------------------------- constants
Null == "null"                       \* a null string (user id, absent session)
NoRow == 0                           \* a null row / null integer (JS falsy)
UserIds == {"u1", "u2", "u3"}        \* u1 is the seeded administrator
QuestionIds == {1, 2}
VoteInputs == {1, -1, 2}             \* body.value as sent; 2 stands for any invalid value
Req == 1..MaxReq

VARIABLES
  users,          \* User table: id -> role
  questions,      \* Question table: set of [id, authorId, title]
  votes,          \* Vote table: bag of [questionId, userId, value]
  comments,       \* Comment table: set of [id, questionId, authorId, parentId]
  nextCommentId,  \* autoincrement of Comment.id
  notifications,  \* Notification table: bag of [userId, type, message, isRead]
  req,            \* per slot: the request being handled, its position and locals
  ops,            \* number of requests started
  serial,         \* TRUE when requests are issued one after the other
  prev,           \* serial runs only: the request answered before the one in slot 1
  userRoles,      \* UserRole table: set of [userId, roleId]
  sessions,       \* Session table: set of [sessionToken, userId, expires]
  issued,         \* the tokens sign-in has handed out so far
  scrubbed,       \* users whose email and password a soft delete has nulled
  clock,          \* the server's time, in ticks
  nextQuestionId, \* autoincrement of Question.id
  emails          \* User.email: id -> email, Null once scrubbed

aux == <<userRoles, sessions, issued, scrubbed, clock, nextQuestionId, emails>>
vars == <<users, questions, votes, comments, nextCommentId, notifications, req, ops, serial, prev, aux>>
store == <<users, questions, votes, comments, nextCommentId, notifications, aux>>

\* ------------------------------------------------------------ the store
NoQuestion == [id |-> NoRow, authorId |-> Null, title |-> Null]
NoComment == [id |-> NoRow, questionId |-> NoRow, authorId |-> Null, parentId |-> NoRow]

\* prisma.question.findUnique({ where: { id } })
QuestionFindUnique(qs, id) ==
  IF \E q \in qs : q.id = id THEN CHOOSE q \in qs : q.id = id ELSE NoQuestion

QuestionExists(qs, id) == \E q \in qs : q.id = id

\* if (!question)
QuestionMissingNever(question) == FALSE

QuestionMissing(question) == question.id = NoRow

\* if (question.authorId === session.user.id)
SelfVoteNever(question, userId) == FALSE

SelfVote(question, userId) == question.authorId = userId

\* rows of the Vote table under the compound key questionId_userId
VoteRows(vs, q, u) == {row \in BagToSet(vs) : row.questionId = q /\ row.userId = u}

\* prisma.vote.findUnique({ where: { questionId_userId } }): the value of the row, or NoRow
VoteFindUnique(vs, q, u) ==
  IF VoteRows(vs, q, u) = {} THEN NoRow ELSE (CHOOSE row \in VoteRows(vs, q, u) : TRUE).value

VoteRow(q, u, v) == [questionId |-> q, userId |-> u, value |-> v]

\* The insert is refused when the (questionId, userId) key is taken or a
\* foreign key does not resolve; prisma.vote.create then throws.
VoteCreateAllowedNoUnique(vs, qs, us, q, u) ==
  QuestionExists(qs, q) /\ u \in DOMAIN us

VoteCreateAllowed(vs, qs, us, q, u) ==
  /\ VoteRows(vs, q, u) = {}
  /\ QuestionExists(qs, q)
  /\ u \in DOMAIN us

VoteInsert(vs, q, u, v) == vs (+) SetToBag({VoteRow(q, u, v)})

\* prisma.vote.delete({ where: { questionId_userId } }): the table without the row of the key
VoteRemoveNothing(vs, q, u) == vs

VoteRemove(vs, q, u) ==
  LET keep == {row \in BagToSet(vs) : ~(row.questionId = q /\ row.userId = u)}
  IN  [row \in keep |-> vs[row]]

\* prisma.vote.update({ where: { questionId_userId }, data: { value } }): one statement
VoteUpdateAsDelete(vs, q, u, v) == VoteRemove(vs, q, u)

VoteUpdate(vs, q, u, v) == VoteInsert(VoteRemove(vs, q, u), q, u, v)

\* prisma.vote.deleteMany({ where: { questionId } })
VoteDeleteManyNothing(vs, q) == vs

VoteDeleteMany(vs, q) ==
  LET keep == {row \in BagToSet(vs) : row.questionId # q}
  IN  [row \in keep |-> vs[row]]

\* prisma.vote.groupBy({ by: ['value'], where: { questionId }, _count: { value: true } })
VoteGroupBy(vs, q) ==
  LET rows == {row \in BagToSet(vs) : row.questionId = q}
      vals == {row.value : row \in rows}
      RECURSIVE Sum(_)
      Sum(S) == IF S = {} THEN 0
                ELSE LET x == CHOOSE x \in S : TRUE IN vs[x] + Sum(S \ {x})
  IN  {[value |-> v, count |-> Sum({row \in rows : row.value = v})] : v \in vals}

\* voteStats.forEach(...): the three accumulators of the handlers
StatCount(stats, v) ==
  IF \E s \in stats : s.value = v THEN (CHOOSE s \in stats : s.value = v).count ELSE 0

AggregateAdds(stats) ==
  [upvotes |-> StatCount(stats, 1),
   downvotes |-> StatCount(stats, -1),
   totalScore |-> StatCount(stats, 1) + StatCount(stats, -1)]

Aggregate(stats) ==
  [upvotes |-> StatCount(stats, 1),
   downvotes |-> StatCount(stats, -1),
   totalScore |-> StatCount(stats, 1) - StatCount(stats, -1)]

\* updatedVote?.value || null
ValueOrNullDropped(v) == NoRow

ValueOrNull(v) == IF v = 0 THEN NoRow ELSE v

\* ------------------------------------------------------- request slots
Idle ==
  [kind |-> "none", pc |-> "idle", userId |-> Null, questionId |-> NoRow, value |-> 0,
   targetId |-> Null, role |-> Null, token |-> [userId |-> Null, iat |-> 0, signed |-> FALSE],
   hard |-> FALSE, passwordOk |-> FALSE, title |-> Null, tags |-> FALSE,
   authorId |-> Null, parentId |-> NoRow, existingVote |-> NoRow, updatedVote |-> NoRow,
   existingQuestion |-> NoQuestion,
   status |-> 0, upvotes |-> 0, downvotes |-> 0, totalScore |-> 0, userVote |-> NoRow,
   paired |-> FALSE, row0 |-> NoRow, score0 |-> 0, raced |-> FALSE,
   returned |-> {}, roots |-> <<>>, totalComments |-> 0, inactiveUsers |-> {},
   all |-> FALSE, ids |-> {}, listed |-> 0, email |-> Null, updatedCount |-> 0, unreadCount |-> 0, deletedCount |-> 0]

InFlight(r) == req[r].pc \notin {"idle", "done"}

\* a new request takes the first slot whose last request has been answered
CanStart(r) ==
  /\ ~InFlight(r)
  /\ \A o \in Req : o < r => InFlight(o)
  /\ ops < MaxOps
  /\ serial => \A o \in Req : ~InFlight(o)

\* what a serial run remembers of the request a new one replaces
PrevAfter(r) == IF serial THEN req[r] ELSE prev

\* the ledger as a reader sees it, counted row by row
UpCount(vs, q) == BagCardinality([row \in {x \in BagToSet(vs) : x.questionId = q /\ x.value = 1} |-> vs[row]])
DownCount(vs, q) == BagCardinality([row \in {x \in BagToSet(vs) : x.questionId = q /\ x.value = -1} |-> vs[row]])
Score(vs, q) == UpCount(vs, q) - DownCount(vs, q)

\* the response is sent: the handler's locals are gone, the answer stays
Respond(rec, code) ==
  [rec EXCEPT !.pc = "done", !.status = code, !.existingVote = NoRow, !.updatedVote = NoRow,
              !.existingQuestion = NoQuestion, !.raced = FALSE]

\* a request refused before it reaches the store: only its answer is kept
Refused(kind, code) == [Idle EXCEPT !.kind = kind, !.pc = "done", !.status = code]

\* A row of question q is inserted by request r while the deletion of q is
\* about to run its transaction: the insert may fall between the statements
\* of that transaction, which is remembered with the deleting request.
RacedBy(rq, r, q) ==
  [o \in Req |-> IF o # r /\ rq[o].kind = "delete" /\ rq[o].pc = "delTx" /\ rq[o].questionId = q
                 THEN [rq[o] EXCEPT !.raced = TRUE]
                 ELSE rq[o]]

\* ------------------------------------------- POST /api/questions/[id]/vote
\* Two overlapping requests of one user on one question are marked as a pair,
\* with the row both of them start from.
Peer(r, u, q) ==
  {o \in Req \ {r} : /\ req[o].kind = "vote"
                     /\ req[o].pc \in {"findQuestion", "findVote", "write"}
                     /\ req[o].userId = u /\ req[o].questionId = q}

\* if (body.value !== 1 && body.value !== -1)
ValueRejectedNever(v) == FALSE

ValueRejected(v) == v # 1 /\ v # -1

\* getServerSession, parseInt, request.json and the check of body.value
VoteStart(r) ==
  /\ CanStart(r)
  /\ \E u \in UserIds \cup {Null}, q \in QuestionIds, v \in VoteInputs :
       LET fresh == [Idle EXCEPT !.kind = "vote", !.userId = u, !.questionId = q, !.value = v,
                                 !.score0 = IF serial THEN Score(votes, q) ELSE 0,
                                 !.row0 = VoteFindUnique(votes, q, u)]
           ok == u # Null /\ ~ValueRejected(v)
           rec == IF u = Null THEN Refused("vote", 401)
                  ELSE IF ValueRejected(v) THEN [Refused("vote", 400) EXCEPT !.value = v]
                  ELSE [fresh EXCEPT !.pc = "findQuestion", !.paired = Peer(r, u, q) # {}]
       IN  req' = [o \in Req |->
                        IF o = r THEN rec
                        ELSE IF ok /\ o \in Peer(r, u, q)
                             THEN [req[o] EXCEPT !.paired = TRUE, !.row0 = VoteFindUnique(votes, q, u)]
                             ELSE req[o]]
  /\ ops' = ops + 1
  /\ UNCHANGED <<store, serial>>
  /\ prev' = PrevAfter(r)

\* prisma.question.findUnique, the 404 and the self-vote 403
VoteFindQuestion(r) ==
  /\ req[r].kind = "vote" /\ req[r].pc = "findQuestion"
  /\ LET question == QuestionFindUnique(questions, req[r].questionId)
         rec == IF QuestionMissing(question) THEN Respond(req[r], 404)
                ELSE IF SelfVote(question, req[r].userId) THEN Respond(req[r], 403)
                ELSE [req[r] EXCEPT !.pc = "findVote"]
     IN  /\ req' = [req EXCEPT ![r] = rec]
  /\ UNCHANGED <<store, ops, serial, prev>>

\* prisma.vote.findUnique: existingVote
VoteFindExisting(r) ==
  /\ req[r].kind = "vote" /\ req[r].pc = "findVote"
  /\ req' = [req EXCEPT ![r] = [req[r] EXCEPT !.pc = "write",
                                   !.existingVote = VoteFindUnique(votes, req[r].questionId, req[r].userId)]]
  /\ UNCHANGED <<store, ops, serial, prev>>

\* the delete / update / create on existingVote; a throw lands in the catch (500)
VoteWrite(r) ==
  /\ req[r].kind = "vote" /\ req[r].pc = "write"
  /\ LET q == req[r].questionId
         u == req[r].userId
         v == req[r].value
         found == VoteRows(votes, q, u) # {}
         throws == IF req[r].existingVote # NoRow THEN ~found
                   ELSE ~VoteCreateAllowed(votes, questions, users, q, u)
         table == IF throws THEN votes
                  ELSE IF req[r].existingVote # NoRow
                       THEN IF req[r].existingVote = v THEN VoteRemove(votes, q, u)
                            ELSE VoteUpdate(votes, q, u, v)
                       ELSE VoteInsert(votes, q, u, v)
         rec == IF throws THEN Respond(req[r], 500)
                ELSE [req[r] EXCEPT !.pc = "stats",
                                    !.updatedVote = IF req[r].existingVote = v THEN NoRow ELSE v]
     IN  /\ votes' = table
         /\ req' = IF ~throws /\ req[r].existingVote = NoRow
                   THEN RacedBy([req EXCEPT ![r] = rec], r, q)
                   ELSE [req EXCEPT ![r] = rec]
  /\ UNCHANGED <<users, questions, comments, nextCommentId, notifications, ops, serial, prev, aux>>

\* prisma.vote.groupBy, the forEach and the response
VoteStats(r) ==
  /\ req[r].kind = "vote" /\ req[r].pc = "stats"
  /\ LET voteStats == VoteGroupBy(votes, req[r].questionId)
         agg == Aggregate(voteStats)
         rec == [Respond(req[r], 200) EXCEPT !.upvotes = agg.upvotes, !.downvotes = agg.downvotes,
                                             !.totalScore = agg.totalScore,
                                             !.userVote = ValueOrNull(req[r].updatedVote)]
     IN  /\ req' = [req EXCEPT ![r] = rec]
  /\ UNCHANGED <<store, ops, serial, prev>>

\* ------------------------------------------- GET /api/questions/[id]/vote
GetStart(r) ==
  /\ CanStart(r)
  /\ \E u \in UserIds \cup {Null}, q \in QuestionIds :
       req' = [req EXCEPT ![r] = [Idle EXCEPT !.kind = "get", !.pc = "getFindQuestion",
                                              !.userId = u, !.questionId = q]]
  /\ ops' = ops + 1
  /\ UNCHANGED <<store, serial>>
  /\ prev' = PrevAfter(r)

GetFindQuestion(r) ==
  /\ req[r].kind = "get" /\ req[r].pc = "getFindQuestion"
  /\ req' = [req EXCEPT ![r] = IF QuestionMissing(QuestionFindUnique(questions, req[r].questionId))
                               THEN Respond(req[r], 404)
                               ELSE [req[r] EXCEPT !.pc = "getStats"]]
  /\ UNCHANGED <<store, ops, serial, prev>>

GetStats(r) ==
  /\ req[r].kind = "get" /\ req[r].pc = "getStats"
  /\ LET agg == Aggregate(VoteGroupBy(votes, req[r].questionId))
     IN  req' = [req EXCEPT ![r] = [req[r] EXCEPT !.pc = "getUserVote", !.upvotes = agg.upvotes,
                                             !.downvotes = agg.downvotes,
                                             !.totalScore = agg.totalScore]]
  /\ UNCHANGED <<store, ops, serial, prev>>

\* getServerSession and, for a signed-in caller, prisma.vote.findUnique
GetUserVote(r) ==
  /\ req[r].kind = "get" /\ req[r].pc = "getUserVote"
  /\ req' = [req EXCEPT ![r] =
               [Respond(req[r], 200) EXCEPT !.userVote =
                  IF req[r].userId # Null
                  THEN ValueOrNull(VoteFindUnique(votes, req[r].questionId, req[r].userId))
                  ELSE NoRow]]
  /\ UNCHANGED <<store, ops, serial, prev>>

\* ------------------------------------------------------ notifications
QuestionCommentMessage == "Someone commented on your question"
CommentReplyMessage == "Someone replied to your comment"

\* the texts that occur inside a stored message, among those a filter asks for
Fragments(message) ==
  IF message = QuestionCommentMessage
  THEN {"Someone", "commented on your question", "your question", "question"}
  ELSE IF message = CommentReplyMessage
  THEN {"Someone", "replied to your comment", "your comment", "comment"}
  ELSE {message}

\* { message: { contains: needle } }
Contains(message, needle) == needle \in Fragments(message)

\* `question ${questionId}`
QuestionNeedle(id) == "question " \o ToString(id)

\* a row of the Notification table; `about` is no column: it remembers the
\* question whose comment produced the row
Notification(u, type, message, q) ==
  [userId |-> u, type |-> type, message |-> message, isRead |-> FALSE, about |-> q]

\* prisma.notification.deleteMany({ where: { OR: [contains `question ${id}`, contains title] } })
NotificationDeleteMany(ns, id, title) ==
  LET keep == {n \in BagToSet(ns) : ~(Contains(n.message, QuestionNeedle(id)) \/ Contains(n.message, title))}
  IN  [n \in keep |-> ns[n]]

\* -------------------------------------------------------------- comments
CommentFindUnique(cs, id) ==
  IF \E c \in cs : c.id = id THEN CHOOSE c \in cs : c.id = id ELSE NoComment

\* foreign keys of a Comment row: its question, its author, its parent
CommentCreateAllowedNoParent(cs, qs, us, q, a, p) ==
  QuestionExists(qs, q) /\ a \in DOMAIN us

CommentCreateAllowed(cs, qs, us, q, a, p) ==
  /\ QuestionExists(qs, q)
  /\ a \in DOMAIN us
  /\ p = NoRow \/ \E c \in cs : c.id = p

\* prisma.comment.deleteMany({ where: { questionId } })
CommentDeleteMany(cs, q) == {c \in cs : c.questionId # q}

\* ------------------------------------ DELETE /api/questions/[id] (owner or admin)
DeleteStart(r) ==
  /\ CanStart(r)
  /\ \E u \in UserIds \cup {Null}, q \in QuestionIds :
       LET fresh == [Idle EXCEPT !.kind = "delete", !.userId = u, !.questionId = q]
       IN  req' = [req EXCEPT ![r] = IF u = Null THEN Refused("delete", 401)
                                     ELSE [fresh EXCEPT !.pc = "delFindQuestion"]]
  /\ ops' = ops + 1
  /\ UNCHANGED <<store, serial>>
  /\ prev' = PrevAfter(r)

DeleteFindQuestion(r) ==
  /\ req[r].kind = "delete" /\ req[r].pc = "delFindQuestion"
  /\ LET existingQuestion == QuestionFindUnique(questions, req[r].questionId)
     IN  req' = [req EXCEPT ![r] =
                   IF QuestionMissing(existingQuestion) THEN Respond(req[r], 404)
                   ELSE [req[r] EXCEPT !.pc = "delFindUser", !.existingQuestion = existingQuestion]]
  /\ UNCHANGED <<store, ops, serial, prev>>

\* prisma.user.findUnique and the owner-or-admin test
MayDeleteAnyone(us, existingQuestion, u) == TRUE

MayDelete(us, existingQuestion, u) ==
  existingQuestion.authorId = u \/ (u \in DOMAIN us /\ us[u] = "ADMIN")

DeleteFindUser(r) ==
  /\ req[r].kind = "delete" /\ req[r].pc = "delFindUser"
  /\ req' = [req EXCEPT ![r] =
               IF MayDelete(users, req[r].existingQuestion, req[r].userId)
               THEN [req[r] EXCEPT !.pc = "delTx"]
               ELSE Respond(req[r], 403)]
  /\ UNCHANGED <<store, ops, serial, prev>>

\* prisma.question.delete({ where: { id } })
QuestionDelete(qs, q) == {x \in qs : x.id # q}

\* prisma.$transaction([vote.deleteMany, comment.deleteMany, notification.deleteMany,
\* question.delete]): the batch commits as a whole or not at all.  question.delete
\* throws on a missing row, and it can throw on a row of the question that was
\* inserted after the deleteMany of its table had run; the batch then rolls back.
DeleteTx(r) ==
  /\ req[r].kind = "delete" /\ req[r].pc = "delTx"
  /\ LET q == req[r].questionId
     IN  \/ /\ QuestionExists(questions, q)
            /\ votes' = VoteDeleteMany(votes, q)
            /\ comments' = CommentDeleteMany(comments, q)
            /\ notifications' = NotificationDeleteMany(notifications, q, req[r].existingQuestion.title)
            /\ questions' = QuestionDelete(questions, q)
            /\ req' = [req EXCEPT ![r] = Respond(req[r], 200)]
         \/ /\ ~QuestionExists(questions, q) \/ req[r].raced
            /\ UNCHANGED <<votes, comments, notifications, questions>>
            /\ req' = [req EXCEPT ![r] = Respond(req[r], 500)]
  /\ UNCHANGED <<users, nextCommentId, ops, serial, prev, aux>>

\* ------------------------------------------------ PUT /api/questions/[id]
EditedTitle == "edited"
CommonTitle == "your question"       \* a title that is part of the text of a notification

\* getServerSession, parseInt, request.json and if (!title || !content), for a
\* body.title among `titles` (Null when absent)
EditStartWith(r, titles) ==
  /\ CanStart(r)
  /\ \E u \in UserIds \cup {Null}, q \in QuestionIds, title \in titles, tags \in BOOLEAN :
       LET fresh == [Idle EXCEPT !.kind = "edit", !.pc = "editFindQuestion", !.userId = u,
                                 !.questionId = q, !.title = title, !.tags = tags]
       IN  req' = [req EXCEPT ![r] = IF u = Null THEN Refused("edit", 401)
                                     ELSE IF title = Null THEN Refused("edit", 400)
                                     ELSE fresh]
  /\ ops' = ops + 1
  /\ UNCHANGED <<store, serial>>
  /\ prev' = PrevAfter(r)

EditStart(r) == EditStartWith(r, {EditedTitle, Null})

\* the same request with a title that notifications quote
RetitleStart(r) == EditStartWith(r, {CommonTitle})

EditFindQuestion(r) ==
  /\ req[r].kind = "edit" /\ req[r].pc = "editFindQuestion"
  /\ LET existingQuestion == QuestionFindUnique(questions, req[r].questionId)
     IN  req' = [req EXCEPT ![r] =
                   IF QuestionMissing(existingQuestion) THEN Respond(req[r], 404)
                   ELSE [req[r] EXCEPT !.pc = "editFindUser", !.existingQuestion = existingQuestion]]
  /\ UNCHANGED <<store, ops, serial, prev>>

\* prisma.user.findUnique and the owner-or-admin test, the same as in DELETE
EditFindUser(r) ==
  /\ req[r].kind = "edit" /\ req[r].pc = "editFindUser"
  /\ req' = [req EXCEPT ![r] =
               IF ~MayDelete(users, req[r].existingQuestion, req[r].userId) THEN Respond(req[r], 403)
               ELSE IF req[r].tags THEN [req[r] EXCEPT !.pc = "editTags"]
               ELSE [req[r] EXCEPT !.pc = "editUpdate"]]
  /\ UNCHANGED <<store, ops, serial, prev>>

\* prisma.question.update({ data: { tags: { set: [] } } }) and the tag upserts: the
\* tag tables are outside the model, the update throws when the question is gone
EditTags(r) ==
  /\ req[r].kind = "edit" /\ req[r].pc = "editTags"
  /\ req' = [req EXCEPT ![r] =
               IF QuestionExists(questions, req[r].questionId) THEN [req[r] EXCEPT !.pc = "editUpdate"]
               ELSE Respond(req[r], 500)]
  /\ UNCHANGED <<store, ops, serial, prev>>

\* prisma.question.update({ where: { id }, data: { title, content, imageUrl } })
QuestionUpdate(qs, id, title) ==
  {IF q.id = id THEN [q EXCEPT !.title = title] ELSE q : q \in qs}

EditUpdate(r) ==
  /\ req[r].kind = "edit" /\ req[r].pc = "editUpdate"
  /\ IF QuestionExists(questions, req[r].questionId)
     THEN /\ questions' = QuestionUpdate(questions, req[r].questionId, req[r].title)
          /\ req' = [req EXCEPT ![r] = Respond(req[r], 200)]
     ELSE /\ questions' = questions
          /\ req' = [req EXCEPT ![r] = Respond(req[r], 500)]
  /\ UNCHANGED <<users, votes, comments, nextCommentId, notifications, ops, serial, prev, aux>>

\* ------------------------------------ POST /api/questions/[id]/comments
CommentAuthors == UserIds \cup {Null, "u9"}      \* body.authorId: u9 names no user

\* the notifications array the transaction builds after tx.comment.create
FanOutNotifiesSelf(cs, qs, q, a, p) ==
  IF p # NoRow
  THEN LET parentComment == CommentFindUnique(cs, p)
       IN  IF parentComment.id # NoRow
           THEN {Notification(parentComment.authorId, "COMMENT_REPLY", CommentReplyMessage, q)}
           ELSE {}
  ELSE LET question == QuestionFindUnique(qs, q)
       IN  IF question.id # NoRow
           THEN {Notification(question.authorId, "QUESTION_COMMENT", QuestionCommentMessage, q)}
           ELSE {}

FanOutAlsoQuestionAuthor(cs, qs, q, a, p) ==
  LET parentComment == CommentFindUnique(cs, p)
      question == QuestionFindUnique(qs, q)
  IN  (IF p # NoRow /\ parentComment.id # NoRow /\ parentComment.authorId # a
       THEN {Notification(parentComment.authorId, "COMMENT_REPLY", CommentReplyMessage, q)}
       ELSE {})
      \cup
      (IF question.id # NoRow /\ question.authorId # a
       THEN {Notification(question.authorId, "QUESTION_COMMENT", QuestionCommentMessage, q)}
       ELSE {})

FanOut(cs, qs, q, a, p) ==
  IF p # NoRow
  THEN LET parentComment == CommentFindUnique(cs, p)
       IN  IF parentComment.id # NoRow /\ parentComment.authorId # a
           THEN {Notification(parentComment.authorId, "COMMENT_REPLY", CommentReplyMessage, q)}
           ELSE {}
  ELSE LET question == QuestionFindUnique(qs, q)
       IN  IF question.id # NoRow /\ question.authorId # a
           THEN {Notification(question.authorId, "QUESTION_COMMENT", QuestionCommentMessage, q)}
           ELSE {}

\* if (!parentComment || parentComment.questionId !== questionId)
ParentRejectedOnlyMissing(cs, q, p) == CommentFindUnique(cs, p).id = NoRow

ParentRejected(cs, q, p) ==
  LET parentComment == CommentFindUnique(cs, p)
  IN  parentComment.id = NoRow \/ parentComment.questionId # q

\* The handler reads no session: the caller (one of `callers`, Null without a
\* session) is kept with the request only to say who sent it.
CommentStartFrom(r, callers) ==
  /\ CanStart(r)
  /\ nextCommentId <= MaxComments
  /\ \E u \in callers, q \in QuestionIds, a \in CommentAuthors, p \in 0..MaxComments, content \in BOOLEAN :
       LET fresh == [Idle EXCEPT !.kind = "comment", !.userId = u, !.questionId = q, !.authorId = a,
                                 !.parentId = p]
       IN  req' = [req EXCEPT ![r] = IF ~content \/ a = Null THEN Refused("comment", 400)
                                     ELSE [fresh EXCEPT !.pc = "comFindQuestion"]]
  /\ ops' = ops + 1
  /\ UNCHANGED <<store, serial>>
  /\ prev' = PrevAfter(r)

CommentStart(r) == CommentStartFrom(r, {Null})

CommentFindQuestion(r) ==
  /\ req[r].kind = "comment" /\ req[r].pc = "comFindQuestion"
  /\ req' = [req EXCEPT ![r] =
               IF QuestionMissing(QuestionFindUnique(questions, req[r].questionId)) THEN Respond(req[r], 404)
               ELSE IF req[r].parentId # NoRow THEN [req[r] EXCEPT !.pc = "comFindParent"]
               ELSE [req[r] EXCEPT !.pc = "comTx"]]
  /\ UNCHANGED <<store, ops, serial, prev>>

CommentFindParent(r) ==
  /\ req[r].kind = "comment" /\ req[r].pc = "comFindParent"
  /\ req' = [req EXCEPT ![r] =
               IF ParentRejected(comments, req[r].questionId, req[r].parentId)
               THEN Respond(req[r], 400)
               ELSE [req[r] EXCEPT !.pc = "comTx"]]
  /\ UNCHANGED <<store, ops, serial, prev>>

\* tx.notification.createMany({ data: notifications }) inside the transaction
NotificationCreateManyLost(ns, rows) == ns

NotificationCreateMany(ns, rows) == ns (+) SetToBag(rows)

\* prisma.$transaction: tx.comment.create, the fan-out, tx.notification.createMany
CommentTx(r) ==
  /\ req[r].kind = "comment" /\ req[r].pc = "comTx"
  /\ LET q == req[r].questionId
         a == req[r].authorId
         p == req[r].parentId
         comment == [id |-> nextCommentId, questionId |-> q, authorId |-> a, parentId |-> p]
     IN  IF CommentCreateAllowed(comments, questions, users, q, a, p)
         THEN /\ comments' = comments \cup {comment}
              /\ nextCommentId' = nextCommentId + 1
              /\ notifications' = NotificationCreateMany(notifications, FanOut(comments \cup {comment}, questions, q, a, p))
              /\ req' = RacedBy([req EXCEPT ![r] = Respond(req[r], 201)], r, q)
         ELSE /\ UNCHANGED <<comments, nextCommentId, notifications>>
              /\ req' = [req EXCEPT ![r] = Respond(req[r], 500)]
  /\ UNCHANGED <<users, questions, votes, ops, serial, prev, aux>>

\* ------------------------------------ GET /api/questions/[id]/comments
IncludeDepth == 4     \* the `replies` includes nested under the top-level findMany

\* the comments of question q without parent
TopLevel(cs, q) == {c \in cs : c.questionId = q /\ c.parentId = NoRow}

\* the rows the relation `replies` reaches from the rows of `level`
Replies(cs, level) == {c \in cs : c.parentId \in {x.id : x \in level}}

\* the rows of the tree that findMany returns: the top level and, under it,
\* as many levels of replies as the query includes
RECURSIVE Included(_, _, _)
Included(cs, level, depth) ==
  IF depth = 0 \/ level = {} THEN level
  ELSE level \cup Included(cs, Replies(cs, level), depth - 1)

\* orderBy: { createdAt: 'desc' }: ids grow with the time of creation
RECURSIVE OrderByDesc(_)
OrderByDesc(ids) ==
  IF ids = {} THEN <<>>
  ELSE LET latest == CHOOSE i \in ids : \A j \in ids : j <= i
       IN  <<latest>> \o OrderByDesc(ids \ {latest})

\* prisma.comment.count({ where: { questionId } })
CommentCount(cs, q) == Cardinality({c \in cs : c.questionId = q})

\* parseInt(params.id); no session is read
ListStart(r) ==
  /\ CanStart(r)
  /\ \E q \in QuestionIds :
       req' = [req EXCEPT ![r] = [Idle EXCEPT !.kind = "list", !.pc = "listFindQuestion",
                                              !.questionId = q]]
  /\ ops' = ops + 1
  /\ UNCHANGED <<store, serial>>
  /\ prev' = PrevAfter(r)

ListFindQuestion(r) ==
  /\ req[r].kind = "list" /\ req[r].pc = "listFindQuestion"
  /\ req' = [req EXCEPT ![r] = IF QuestionMissing(QuestionFindUnique(questions, req[r].questionId))
                               THEN Respond(req[r], 404)
                               ELSE [req[r] EXCEPT !.pc = "listFindMany"]]
  /\ UNCHANGED <<store, ops, serial, prev>>

\* prisma.comment.findMany({ where: { questionId, parentId: null }, include, orderBy })
ListFindMany(r) ==
  /\ req[r].kind = "list" /\ req[r].pc = "listFindMany"
  /\ LET top == TopLevel(comments, req[r].questionId)
     IN  req' = [req EXCEPT ![r] =
                   [req[r] EXCEPT !.pc = "listCount",
                                  !.returned = {c.id : c \in Included(comments, top, IncludeDepth)},
                                  !.roots = OrderByDesc({c.id : c \in top})]]
  /\ UNCHANGED <<store, ops, serial, prev>>

\* totalComments: await prisma.comment.count(...), and the response
ListCount(r) ==
  /\ req[r].kind = "list" /\ req[r].pc = "listCount"
  /\ req' = [req EXCEPT ![r] =
               [Respond(req[r], 200) EXCEPT !.totalComments = CommentCount(comments, req[r].questionId)]]
  /\ UNCHANGED <<store, ops, serial, prev>>

\* ------------------------------------------------------------ user roles
Roles == {"USER", "ADMIN"}
RoleInputs == Roles \cup {Null, "OWNER"}     \* body.role: Null when absent, OWNER outside the enum
TargetIds == UserIds \cup {"u9"}             \* the id in the path or body: u9 names no user

\* user?.role === 'ADMIN'
IsAdminWhenSeeded(us, u) == u = "u1"

IsAdmin(us, u) == u \in DOMAIN us /\ us[u] = "ADMIN"

\* prisma.user.update({ where: { id }, data: { role } }) throws on a missing row
\* and on a value outside the Role enum
UserUpdateThrows(us, id, role) == id \notin DOMAIN us \/ (role # Null /\ role \notin Roles)

\* the table after the update; an absent role leaves the column alone
UserUpdate(us, id, role) == IF role = Null THEN us ELSE [us EXCEPT ![id] = role]

\* a request of the user area starts: caller u, target id, body.role
UserAreaStart(r, kind, pc, needsSession) ==
  /\ CanStart(r)
  /\ \E u \in UserIds \cup {Null}, id \in TargetIds, role \in RoleInputs :
       LET fresh == [Idle EXCEPT !.kind = kind, !.pc = pc, !.userId = u, !.targetId = id, !.role = role]
       IN  req' = [req EXCEPT ![r] = IF needsSession /\ u = Null THEN Refused(kind, 401) ELSE fresh]
  /\ ops' = ops + 1
  /\ UNCHANGED <<store, serial>>
  /\ prev' = PrevAfter(r)

\* the last step of the four handlers: prisma.user.update and the response
UserAreaUpdate(r, kind, pc) ==
  /\ req[r].kind = kind /\ req[r].pc = pc
  /\ IF UserUpdateThrows(users, req[r].targetId, req[r].role)
     THEN /\ users' = users
          /\ req' = [req EXCEPT ![r] = Respond(req[r], 500)]
     ELSE /\ users' = UserUpdate(users, req[r].targetId, req[r].role)
          /\ req' = [req EXCEPT ![r] = Respond(req[r], 200)]
  /\ UNCHANGED <<questions, votes, comments, nextCommentId, notifications, ops, serial, prev, aux>>

\* ---------------------------------------------- PUT /api/users/[id]/role
RolePutStart(r) == UserAreaStart(r, "rolePut", "roleFindCurrent", TRUE)

\* prisma.user.findUnique of the caller, the ADMIN test and the check of body.role
RolePutFindCurrent(r) ==
  /\ req[r].kind = "rolePut" /\ req[r].pc = "roleFindCurrent"
  /\ req' = [req EXCEPT ![r] =
               IF ~IsAdmin(users, req[r].userId) THEN Respond(req[r], 403)
               ELSE IF req[r].role \notin Roles THEN Respond(req[r], 400)
               ELSE [req[r] EXCEPT !.pc = "roleFindTarget"]]
  /\ UNCHANGED <<store, ops, serial, prev>>

\* if (currentUser.id === userId)
SelfTargetNever(u, id) == FALSE

SelfTarget(u, id) == u = id

\* prisma.user.findUnique of the target, the self test and the same-role test
RolePutFindTarget(r) ==
  /\ req[r].kind = "rolePut" /\ req[r].pc = "roleFindTarget"
  /\ req' = [req EXCEPT ![r] =
               IF req[r].targetId \notin DOMAIN users THEN Respond(req[r], 404)
               ELSE IF SelfTarget(req[r].userId, req[r].targetId) THEN Respond(req[r], 400)
               ELSE IF users[req[r].targetId] = req[r].role THEN Respond(req[r], 400)
               ELSE [req[r] EXCEPT !.pc = "roleUpdate"]]
  /\ UNCHANGED <<store, ops, serial, prev>>

RolePutUpdate(r) == UserAreaUpdate(r, "rolePut", "roleUpdate")

\* --------------------------------------------------- PUT /api/users/[id]
\* no session is read: the caller is whoever sent the request
UserPutStart(r) == UserAreaStart(r, "userPut", "putFindUser", FALSE)

UserPutFindUser(r) ==
  /\ req[r].kind = "userPut" /\ req[r].pc = "putFindUser"
  /\ req' = [req EXCEPT ![r] =
               IF req[r].targetId \notin DOMAIN users THEN Respond(req[r], 404)
               ELSE [req[r] EXCEPT !.pc = "putUpdate"]]
  /\ UNCHANGED <<store, ops, serial, prev>>

UserPutUpdate(r) == UserAreaUpdate(r, "userPut", "putUpdate")

\* --------------------------------------------------- PUT /api/admin/users
AdminUserPutStart(r) == UserAreaStart(r, "adminUserPut", "admIsAdmin", TRUE)

\* isAdmin(session.user.id), then the checks of the body
AdminUserPutIsAdmin(r) ==
  /\ req[r].kind = "adminUserPut" /\ req[r].pc = "admIsAdmin"
  /\ req' = [req EXCEPT ![r] =
               IF ~IsAdmin(users, req[r].userId) THEN Respond(req[r], 403)
               ELSE IF req[r].role # Null /\ req[r].role \notin Roles THEN Respond(req[r], 400)
               ELSE IF req[r].targetId = req[r].userId /\ req[r].role = "USER" THEN Respond(req[r], 400)
               ELSE [req[r] EXCEPT !.pc = "admFindUser"]]
  /\ UNCHANGED <<store, ops, serial, prev>>

AdminUserPutFindUser(r) ==
  /\ req[r].kind = "adminUserPut" /\ req[r].pc = "admFindUser"
  /\ req' = [req EXCEPT ![r] =
               IF req[r].targetId \notin DOMAIN users THEN Respond(req[r], 404)
               ELSE [req[r] EXCEPT !.pc = "admUpdate"]]
  /\ UNCHANGED <<store, ops, serial, prev>>

AdminUserPutUpdate(r) == UserAreaUpdate(r, "adminUserPut", "admUpdate")

\* ------------------------- POST /api/admin/overview, action UPDATE_USER_ROLE
\* isAdmin(req) answers false without a session: 403
AdminActionStart(r) ==
  /\ CanStart(r)
  /\ \E u \in UserIds \cup {Null}, id \in TargetIds, role \in RoleInputs :
       LET fresh == [Idle EXCEPT !.kind = "adminAction", !.pc = "actIsAdmin", !.userId = u,
                                 !.targetId = id, !.role = role]
       IN  req' = [req EXCEPT ![r] = IF u = Null THEN Refused("adminAction", 403) ELSE fresh]
  /\ ops' = ops + 1
  /\ UNCHANGED <<store, serial>>
  /\ prev' = PrevAfter(r)

\* prisma.user.findUnique of the caller, then if (!userId || !newRole)
AdminActionIsAdmin(r) ==
  /\ req[r].kind = "adminAction" /\ req[r].pc = "actIsAdmin"
  /\ req' = [req EXCEPT ![r] =
               IF ~IsAdmin(users, req[r].userId) THEN Respond(req[r], 403)
               ELSE IF req[r].role = Null THEN Respond(req[r], 400)
               ELSE [req[r] EXCEPT !.pc = "actUpdate"]]
  /\ UNCHANGED <<store, ops, serial, prev>>

AdminActionUpdate(r) == UserAreaUpdate(r, "adminAction", "actUpdate")

\* -------------------------------------------------- POST /api/users/[id]
RoleIds == {1}
UserPostActions == {"verify-email", "assign-role", "other"}

\* no session is read; body.action selects the branch, an unknown action is 400
UserPostStart(r) ==
  /\ CanStart(r)
  /\ \E u \in UserIds \cup {Null}, id \in TargetIds, action \in UserPostActions :
       LET fresh == [Idle EXCEPT !.kind = "userPost", !.pc = "postWrite", !.userId = u,
                                 !.targetId = id, !.role = action]
       IN  req' = [req EXCEPT ![r] = IF action = "other" THEN Refused("userPost", 400) ELSE fresh]
  /\ ops' = ops + 1
  /\ UNCHANGED <<store, serial>>
  /\ prev' = PrevAfter(r)

\* verify-email: prisma.user.update of emailVerified, a column outside the model;
\* assign-role: prisma.userRole.create({ data: { userId: id, roleId } }), refused
\* when the user is missing and possibly when the assignment is already there
UserPostWrite(r) ==
  /\ req[r].kind = "userPost" /\ req[r].pc = "postWrite"
  /\ \E roleId \in RoleIds, code \in {200, 500} :
       LET id == req[r].targetId
           row == [userId |-> id, roleId |-> roleId]
           rows == IF req[r].role = "assign-role" /\ id \in DOMAIN users THEN userRoles \cup {row}
                   ELSE userRoles
       IN  /\ code = 500 <=> \/ id \notin DOMAIN users
                             \/ (req[r].role = "assign-role" /\ row \in userRoles /\ code = 500)
           /\ userRoles' = rows
           /\ req' = [req EXCEPT ![r] = Respond(req[r], code)]
  /\ UNCHANGED <<users, questions, votes, comments, nextCommentId, notifications, ops, serial, prev,
                 sessions, issued, scrubbed, clock, nextQuestionId, emails>>

\* ------------------------------------------------- tokens and sessions
TicksPerSecond == 2                  \* Date.now() counts finer than the token's seconds
JwtExpirationSeconds == 1            \* getJwtExpirationSeconds(), scaled down

NoToken == [userId |-> Null, iat |-> 0, signed |-> FALSE]        \* no auth-token cookie
BadToken == [userId |-> "u1", iat |-> 0, signed |-> FALSE]       \* a token JWT_SECRET did not sign

\* jwt.sign(payload, JWT_SECRET, { expiresIn }): iat is the time in whole seconds
Sign(u, now) == [userId |-> u, iat |-> now \div TicksPerSecond, signed |-> TRUE]

\* jwt.verify(token, JWT_SECRET): the signature, then the exp claim against the time in whole seconds
JwtVerify(token, now) ==
  token.signed /\ (now \div TicksPerSecond) < token.iat + JwtExpirationSeconds

\* { sessionToken: token, userId, expires: new Date(Date.now() + expirationInSeconds * 1000) }
SessionRow(token, now) ==
  [sessionToken |-> token, userId |-> token.userId,
   expires |-> now + JwtExpirationSeconds * TicksPerSecond]

NoSession == [sessionToken |-> NoToken, userId |-> Null, expires |-> 0]

\* prisma.session.findUnique({ where: { sessionToken } })
SessionFindUnique(ss, token) ==
  IF \E x \in ss : x.sessionToken = token THEN CHOOSE x \in ss : x.sessionToken = token ELSE NoSession

\* session.expires < new Date()
SessionExpiredNever(session, now) == FALSE

SessionExpired(session, now) == session.expires < now

\* time passes
Tick ==
  /\ clock < MaxClock
  /\ clock' = clock + 1
  /\ UNCHANGED <<users, questions, votes, comments, nextCommentId, notifications, req, ops, serial,
                 prev, userRoles, sessions, issued, scrubbed, nextQuestionId, emails>>

\* --------------------------------------------------- POST /api/auth/signin
SignInStart(r) ==
  /\ CanStart(r)
  /\ \E u \in TargetIds, ok \in BOOLEAN :
       req' = [req EXCEPT ![r] = [Idle EXCEPT !.kind = "signin", !.pc = "signFindUser",
                                              !.userId = u, !.passwordOk = ok]]
  /\ ops' = ops + 1
  /\ UNCHANGED <<store, serial>>
  /\ prev' = PrevAfter(r)

\* if (!user), if (!user.password), if (!isValidPassword): a scrubbed account
\* has neither email nor password
SignInRefusedOnMismatch(us, gone, u, ok) == u \notin DOMAIN us \/ ~ok

SignInRefused(us, gone, u, ok) == u \notin DOMAIN us \/ u \in gone \/ ~ok

\* prisma.user.findUnique({ where: { email } }), the null password of a scrubbed
\* account, bcrypt.compare
SignInFindUser(r) ==
  /\ req[r].kind = "signin" /\ req[r].pc = "signFindUser"
  /\ req' = [req EXCEPT ![r] =
               IF SignInRefused(users, scrubbed, req[r].userId, req[r].passwordOk)
               THEN Respond(req[r], 401)
               ELSE [req[r] EXCEPT !.pc = "signCreate"]]
  /\ UNCHANGED <<store, ops, serial, prev>>

\* jwt.sign and prisma.session.create; the insert throws when the token is
\* already a sessionToken or the user is gone
SignInCreate(r) ==
  /\ req[r].kind = "signin" /\ req[r].pc = "signCreate"
  /\ LET token == Sign(req[r].userId, clock)
         throws == \/ \E x \in sessions : x.sessionToken = token
                   \/ req[r].userId \notin DOMAIN users
     IN  /\ sessions' = IF throws THEN sessions ELSE sessions \cup {SessionRow(token, clock)}
         /\ issued' = IF throws THEN issued ELSE issued \cup {token}
         /\ req' = [req EXCEPT ![r] = IF throws THEN Respond(req[r], 500)
                                       ELSE [Respond(req[r], 200) EXCEPT !.token = token]]
  /\ UNCHANGED <<users, questions, votes, comments, nextCommentId, notifications, ops, serial, prev,
                 userRoles, scrubbed, clock, nextQuestionId, emails>>

\* ------------------------- verifyTokenAndGetUser and GET /api/auth/signin
\* the callers of the resolver modelled here: GET /api/auth/signin, DELETE /api/auth/me
ResolverKinds == {"authCheck", "meDelete"}

\* the cookie is read and jwt.verify runs: no token or a token that does not
\* verify is answered 401 before the store is asked
ResolveStartOf(r, kinds) ==
  /\ CanStart(r)
  /\ \E kind \in kinds, token \in issued \cup {NoToken, BadToken}, hard \in BOOLEAN :
       /\ kind = "authCheck" => ~hard
       /\ req' = [req EXCEPT ![r] =
                    IF token = NoToken \/ ~JwtVerify(token, clock)
                    THEN [Refused(kind, 401) EXCEPT !.token = token]
                    ELSE [Idle EXCEPT !.kind = kind, !.pc = "findSession", !.token = token,
                                      !.hard = hard]]
  /\ ops' = ops + 1
  /\ UNCHANGED <<store, serial>>
  /\ prev' = PrevAfter(r)

ResolveStart(r) == ResolveStartOf(r, ResolverKinds)

\* prisma.session.findUnique and if (!session || session.expires < new Date())
ResolveFindSession(r) ==
  /\ req[r].kind \in ResolverKinds /\ req[r].pc = "findSession"
  /\ LET session == SessionFindUnique(sessions, req[r].token)
     IN  req' = [req EXCEPT ![r] =
                   IF session = NoSession THEN Respond(req[r], 401)
                   ELSE IF SessionExpired(session, clock) THEN [req[r] EXCEPT !.pc = "cleanup"]
                   ELSE IF req[r].kind = "authCheck"
                        THEN [Respond(req[r], 200) EXCEPT !.userId = session.userId]
                        ELSE [req[r] EXCEPT !.pc = "meDeleteWrite", !.userId = session.userId]]
  /\ UNCHANGED <<store, ops, serial, prev>>

\* the Session table after prisma.session.delete({ where: { sessionToken: token } })
SessionDeleteSweep(ss, token) == {x \in ss : x.sessionToken # token /\ ~(x.expires < clock)}

SessionDelete(ss, token) == {x \in ss : x.sessionToken # token}

\* prisma.session.delete({ where: { sessionToken: token } }); on a missing row it
\* throws: the resolver's catch returns null, the catch of GET /api/auth/signin answers 500
ResolveCleanup(r) ==
  /\ req[r].kind \in ResolverKinds /\ req[r].pc = "cleanup"
  /\ LET found == \E x \in sessions : x.sessionToken = req[r].token
     IN  /\ sessions' = SessionDelete(sessions, req[r].token)
         /\ req' = [req EXCEPT ![r] =
                      Respond(req[r], IF ~found /\ req[r].kind = "authCheck" THEN 500 ELSE 401)]
  /\ UNCHANGED <<users, questions, votes, comments, nextCommentId, notifications, ops, serial, prev,
                 userRoles, issued, scrubbed, clock, nextQuestionId, emails>>

\* ------------------------------------------------- DELETE /api/auth/me
\* the comments left after every reply, at any depth, to a removed comment is removed
RECURSIVE Sweep(_, _)
Sweep(cs, goneIds) ==
  LET kids == {c \in cs : c.parentId \in goneIds}
  IN  IF kids = {} THEN cs ELSE Sweep(cs \ kids, goneIds \cup {c.id : c \in kids})

\* what the referenced rows' deletion does to the rows that reference them
OnDelete == {"Restrict", "Cascade"}

\* the tables after the eight statements of the hard delete of user u, before
\* the foreign keys of the rows of other users are looked at
HardDeleteOwn(u) ==
  [notifications |-> [n \in {x \in BagToSet(notifications) : x.userId # u} |-> notifications[n]],
   votes |-> [row \in {x \in BagToSet(votes) : x.userId # u} |-> votes[row]],
   comments |-> {c \in comments : c.authorId # u},
   questions |-> {q \in questions : q.authorId # u},
   userRoles |-> {x \in userRoles : x.userId # u},
   sessions |-> {x \in sessions : x.userId # u},
   users |-> [x \in DOMAIN users \ {u} |-> users[x]]]

\* rows of other users that reference a question or a comment of u
Blockers(u) ==
  LET own == HardDeleteOwn(u)
      goneQ == {q.id : q \in questions \ own.questions}
      goneC == {c.id : c \in comments \ own.comments}
  IN  {row \in BagToSet(own.votes) : row.questionId \in goneQ}
      \cup {c \in own.comments : c.questionId \in goneQ \/ c.parentId \in goneC}

\* the same tables when the store removes the referencing rows itself
HardDeleteCascade(u) ==
  LET own == HardDeleteOwn(u)
      goneQ == {q.id : q \in questions \ own.questions}
      goneC == {c.id : c \in comments \ own.comments}
  IN  [own EXCEPT !.votes = [row \in {x \in BagToSet(own.votes) : x.questionId \notin goneQ}
                               |-> own.votes[row]],
                  !.comments = Sweep({c \in own.comments : c.questionId \notin goneQ},
                                     goneC \cup {c.id : c \in {x \in own.comments : x.questionId \in goneQ}})]

\* the User table after prisma.user.update({ where: { id }, data: { email: null, name,
\* image: null, password: null, emailVerified: null } }): id and role are not in `data`
UserScrubRemoves(us, u) == [x \in DOMAIN us \ {u} |-> us[x]]

UserScrub(us, u) == us

\* hard: prisma.$transaction of the eight statements; soft: prisma.user.update of
\* the personal columns.  The schema is not among the sources: a row of another
\* user that references a question or comment of the deleted user either makes
\* the statement throw, and the transaction roll back, or is removed by the store.
MeDeleteWrite(r) ==
  /\ req[r].kind = "meDelete" /\ req[r].pc = "meDeleteWrite"
  /\ LET u == req[r].userId
     IN  \E onDelete \in OnDelete :
           LET throws == u \notin DOMAIN users
                         \/ (req[r].hard /\ onDelete = "Restrict" /\ Blockers(u) # {})
               after == HardDeleteCascade(u)
           IN  IF throws \/ ~req[r].hard
               THEN /\ UNCHANGED <<questions, votes, comments, notifications, userRoles, sessions>>
                    /\ users' = IF throws THEN users ELSE UserScrub(users, u)
                    /\ emails' = IF throws THEN emails ELSE [emails EXCEPT ![u] = Null]
                    /\ scrubbed' = IF throws THEN scrubbed ELSE scrubbed \cup {u}
                    /\ req' = [req EXCEPT ![r] = Respond(req[r], IF throws THEN 500 ELSE 200)]
               ELSE /\ users' = after.users
                    /\ questions' = after.questions
                    /\ votes' = after.votes
                    /\ comments' = after.comments
                    /\ notifications' = after.notifications
                    /\ userRoles' = after.userRoles
                    /\ sessions' = after.sessions
                    /\ emails' = [x \in DOMAIN after.users |-> emails[x]]
                    /\ scrubbed' = scrubbed \ {u}
                    /\ req' = [req EXCEPT ![r] = Respond(req[r], 200)]
  /\ UNCHANGED <<nextCommentId, ops, serial, prev, issued, clock, nextQuestionId>>

\* ------------------------------------------------ POST /api/notifications
DirectType == "SYSTEM"
DirectMessage == "direct"

\* if (targetUserId !== session.user.id) { ... if (currentUser?.role !== 'ADMIN') 403 }
MayNotifyAnyone(us, u, target) == TRUE

MayNotify(us, u, target) == target = u \/ IsAdmin(us, u)

\* getServerSession, createNotificationSchema.parse (a ZodError is answered 400)
\* and validatedData.userId || session.user.id
NotifyPostStart(r) ==
  /\ CanStart(r)
  /\ \E u \in UserIds \cup {Null}, id \in TargetIds \cup {Null}, valid \in BOOLEAN :
       LET targetUserId == IF id = Null THEN u ELSE id
           fresh == [Idle EXCEPT !.kind = "notifyPost", !.userId = u, !.targetId = targetUserId,
                                 !.pc = IF targetUserId # u THEN "npFindCurrent" ELSE "npFindTarget"]
       IN  req' = [req EXCEPT ![r] = IF u = Null THEN Refused("notifyPost", 401)
                                     ELSE IF ~valid THEN Refused("notifyPost", 400)
                                     ELSE fresh]
  /\ ops' = ops + 1
  /\ UNCHANGED <<store, serial>>
  /\ prev' = PrevAfter(r)

\* prisma.user.findUnique of the caller and the role test
NotifyPostFindCurrent(r) ==
  /\ req[r].kind = "notifyPost" /\ req[r].pc = "npFindCurrent"
  /\ req' = [req EXCEPT ![r] = IF MayNotify(users, req[r].userId, req[r].targetId)
                               THEN [req[r] EXCEPT !.pc = "npFindTarget"]
                               ELSE Respond(req[r], 403)]
  /\ UNCHANGED <<store, ops, serial, prev>>

\* Verify target user exists
NotifyPostFindTarget(r) ==
  /\ req[r].kind = "notifyPost" /\ req[r].pc = "npFindTarget"
  /\ req' = [req EXCEPT ![r] = IF req[r].targetId \notin DOMAIN users THEN Respond(req[r], 404)
                               ELSE [req[r] EXCEPT !.pc = "npCreate"]]
  /\ UNCHANGED <<store, ops, serial, prev>>

\* prisma.notification.create({ data: { type, message, userId: targetUserId } }); the
\* insert throws when the user is gone
NotifyPostCreate(r) ==
  /\ req[r].kind = "notifyPost" /\ req[r].pc = "npCreate"
  /\ IF req[r].targetId \in DOMAIN users
     THEN /\ notifications' = notifications
                               (+) SetToBag({Notification(req[r].targetId, DirectType, DirectMessage, NoRow)})
          /\ req' = [req EXCEPT ![r] = Respond(req[r], 201)]
     ELSE /\ notifications' = notifications
          /\ req' = [req EXCEPT ![r] = Respond(req[r], 500)]
  /\ UNCHANGED <<users, questions, votes, comments, nextCommentId, ops, serial, prev, aux>>

\* --------------------------------- PATCH and DELETE /api/notifications
\* A request names rows by id; here a row is named by its content, and rows
\* of equal content are named together.
Rows(ns) == BagToSet(ns)

\* where: { userId, isRead: false }
UnreadOfAnyone(ns, u) == {n \in Rows(ns) : ~n.isRead}

UnreadOf(ns, u) == {n \in Rows(ns) : n.userId = u /\ ~n.isRead}

\* where: { id: { in: ids }, userId }
OwnAmong(ns, ids, u) == {n \in Rows(ns) : n \in ids /\ n.userId = u}

\* number of stored rows among `sel`
RowCount(ns, sel) == BagCardinality([n \in sel \cap Rows(ns) |-> ns[n]])

\* updateMany({ where, data: { isRead: true } }) on the rows `sel`
RECURSIVE MarkedRead(_, _)
MarkedRead(ns, sel) ==
  IF sel = {} THEN EmptyBag
  ELSE LET n == CHOOSE x \in sel : TRUE
       IN  [y \in {[n EXCEPT !.isRead = TRUE]} |-> ns[n]] (+) MarkedRead(ns, sel \ {n})

NotificationUpdateManyFlips(ns, sel) ==
  LET RECURSIVE Flipped(_)
      Flipped(S) ==
        IF S = {} THEN EmptyBag
        ELSE LET n == CHOOSE x \in S : TRUE
             IN  [y \in {[n EXCEPT !.isRead = ~n.isRead]} |-> ns[n]] (+) Flipped(S \ {n})
  IN  [n \in Rows(ns) \ sel |-> ns[n]] (+) Flipped(sel \cap Rows(ns))

NotificationUpdateMany(ns, sel) ==
  [n \in Rows(ns) \ sel |-> ns[n]] (+) MarkedRead(ns, sel \cap Rows(ns))

\* deleteMany({ where }) on the rows `sel`
NotificationRemove(ns, sel) == [n \in Rows(ns) \ sel |-> ns[n]]

\* getServerSession and the body (PATCH) or the query string (DELETE); the list
\* of ids may name one of its rows twice: `listed` is its length
NotifyAreaStart(r, kind, pcAll, pcIds) ==
  /\ CanStart(r)
  /\ \E u \in UserIds \cup {Null}, all \in BOOLEAN, ids \in SUBSET Rows(notifications), twice \in BOOLEAN :
       /\ all => ids = {}
       /\ ids = {} => ~twice
       /\ LET fresh == [Idle EXCEPT !.kind = kind, !.userId = u, !.all = all, !.ids = ids,
                                    !.listed = Cardinality(ids) + (IF twice THEN 1 ELSE 0),
                                    !.pc = IF all THEN pcAll ELSE pcIds]
          IN  req' = [req EXCEPT ![r] = IF u = Null THEN Refused(kind, 401)
                                        ELSE IF ~all /\ ids = {} THEN Refused(kind, 400)
                                        ELSE fresh]
  /\ ops' = ops + 1
  /\ UNCHANGED <<store, serial>>
  /\ prev' = PrevAfter(r)

\* prisma.notification.count({ where: { id: { in: ids }, userId } }) against ids.length
NotifyAreaVerify(r, kind, pc, pcNext) ==
  /\ req[r].kind = kind /\ req[r].pc = pc
  /\ req' = [req EXCEPT ![r] =
               IF Cardinality(OwnAmong(notifications, req[r].ids, req[r].userId)) # req[r].listed
               THEN Respond(req[r], 404)
               ELSE [req[r] EXCEPT !.pc = pcNext]]
  /\ UNCHANGED <<store, ops, serial, prev>>

MarkStart(r) == NotifyAreaStart(r, "markRead", "mrUpdateAll", "mrVerify")

\* markAllAsRead: updateMany({ where: { userId, isRead: false }, data: { isRead: true } })
MarkUpdateAll(r) ==
  /\ req[r].kind = "markRead" /\ req[r].pc = "mrUpdateAll"
  /\ LET sel == UnreadOf(notifications, req[r].userId)
     IN  /\ notifications' = NotificationUpdateMany(notifications, sel)
         /\ req' = [req EXCEPT ![r] = [req[r] EXCEPT !.pc = "mrCount",
                                                     !.updatedCount = RowCount(notifications, sel)]]
  /\ UNCHANGED <<users, questions, votes, comments, nextCommentId, ops, serial, prev, aux>>

MarkVerify(r) == NotifyAreaVerify(r, "markRead", "mrVerify", "mrUpdateIds")

\* updateMany({ where: { id: { in: notificationIds }, userId }, data: { isRead: true } })
MarkUpdateIds(r) ==
  /\ req[r].kind = "markRead" /\ req[r].pc = "mrUpdateIds"
  /\ LET sel == OwnAmong(notifications, req[r].ids, req[r].userId)
     IN  /\ notifications' = NotificationUpdateMany(notifications, sel)
         /\ req' = [req EXCEPT ![r] = [req[r] EXCEPT !.pc = "mrCount",
                                                     !.updatedCount = RowCount(notifications, sel)]]
  /\ UNCHANGED <<users, questions, votes, comments, nextCommentId, ops, serial, prev, aux>>

\* prisma.notification.count({ where: { userId, isRead: false } }) and the response
MarkCount(r) ==
  /\ req[r].kind = "markRead" /\ req[r].pc = "mrCount"
  /\ req' = [req EXCEPT ![r] =
               [Respond(req[r], 200) EXCEPT
                  !.unreadCount = RowCount(notifications, UnreadOf(notifications, req[r].userId))]]
  /\ UNCHANGED <<store, ops, serial, prev>>

NotifyDeleteStart(r) == NotifyAreaStart(r, "notifyDelete", "ndDeleteAll", "ndVerify")

\* deleteAll: deleteMany({ where: { userId } })
NotifyDeleteAll(r) ==
  /\ req[r].kind = "notifyDelete" /\ req[r].pc = "ndDeleteAll"
  /\ LET sel == {n \in Rows(notifications) : n.userId = req[r].userId}
     IN  /\ notifications' = NotificationRemove(notifications, sel)
         /\ req' = [req EXCEPT ![r] = [Respond(req[r], 200) EXCEPT
                                         !.deletedCount = RowCount(notifications, sel)]]
  /\ UNCHANGED <<users, questions, votes, comments, nextCommentId, ops, serial, prev, aux>>

NotifyDeleteVerify(r) == NotifyAreaVerify(r, "notifyDelete", "ndVerify", "ndDeleteIds")

\* deleteMany({ where: { id: { in: notificationIds }, userId } })
NotifyDeleteIds(r) ==
  /\ req[r].kind = "notifyDelete" /\ req[r].pc = "ndDeleteIds"
  /\ LET sel == OwnAmong(notifications, req[r].ids, req[r].userId)
     IN  /\ notifications' = NotificationRemove(notifications, sel)
         /\ req' = [req EXCEPT ![r] = [Respond(req[r], 200) EXCEPT
                                         !.deletedCount = RowCount(notifications, sel)]]
  /\ UNCHANGED <<users, questions, votes, comments, nextCommentId, ops, serial, prev, aux>>

\* ----------------- POST /api/admin/overview, action CLEAR_NOTIFICATIONS
ClearStart(r) ==
  /\ CanStart(r)
  /\ \E u \in UserIds \cup {Null} :
       req' = [req EXCEPT ![r] = IF u = Null THEN Refused("clear", 403)
                                 ELSE [Idle EXCEPT !.kind = "clear", !.pc = "clIsAdmin", !.userId = u]]
  /\ ops' = ops + 1
  /\ UNCHANGED <<store, serial>>
  /\ prev' = PrevAfter(r)

ClearIsAdmin(r) ==
  /\ req[r].kind = "clear" /\ req[r].pc = "clIsAdmin"
  /\ req' = [req EXCEPT ![r] = IF ~IsAdmin(users, req[r].userId) THEN Respond(req[r], 403)
                               ELSE [req[r] EXCEPT !.pc = "clDelete"]]
  /\ UNCHANGED <<store, ops, serial, prev>>

\* deleteMany({ where: { isRead: true, createdAt: { lt: thirtyDaysAgo } } }); createdAt
\* is no column of the model: any of the read rows may be that old
ClearDelete(r) ==
  /\ req[r].kind = "clear" /\ req[r].pc = "clDelete"
  /\ \E old \in SUBSET {n \in Rows(notifications) : n.isRead} :
       /\ notifications' = NotificationRemove(notifications, old)
       /\ req' = [req EXCEPT ![r] = [Respond(req[r], 200) EXCEPT
                                       !.deletedCount = RowCount(notifications, old)]]
  /\ UNCHANGED <<users, questions, votes, comments, nextCommentId, ops, serial, prev, aux>>

\* --------------------------------------------- POST /api/admin/questions
NewTitle == "new"

\* foreign key of a Question row: its author
QuestionCreateAllowedAlways(us, a) == TRUE

QuestionCreateAllowed(us, a) == a \in DOMAIN us

\* isAdmin(req) answers false without a session: 403
AdminQuestionStart(r) ==
  /\ CanStart(r)
  /\ nextQuestionId <= MaxQuestions
  /\ \E u \in UserIds \cup {Null}, a \in TargetIds \cup {Null}, title \in {NewTitle, Null} :
       LET fresh == [Idle EXCEPT !.kind = "adminQuestion", !.pc = "aqIsAdmin", !.userId = u,
                                 !.authorId = a, !.title = title]
       IN  req' = [req EXCEPT ![r] = IF u = Null THEN Refused("adminQuestion", 403) ELSE fresh]
  /\ ops' = ops + 1
  /\ UNCHANGED <<store, serial>>
  /\ prev' = PrevAfter(r)

\* prisma.user.findUnique of the caller, then if (!title || !content || !authorId)
AdminQuestionIsAdmin(r) ==
  /\ req[r].kind = "adminQuestion" /\ req[r].pc = "aqIsAdmin"
  /\ req' = [req EXCEPT ![r] =
               IF ~IsAdmin(users, req[r].userId) THEN Respond(req[r], 403)
               ELSE IF req[r].title = Null \/ req[r].authorId = Null THEN Respond(req[r], 400)
               ELSE [req[r] EXCEPT !.pc = "aqFindAuthor"]]
  /\ UNCHANGED <<store, ops, serial, prev>>

\* Verify author exists
AdminQuestionFindAuthor(r) ==
  /\ req[r].kind = "adminQuestion" /\ req[r].pc = "aqFindAuthor"
  /\ req' = [req EXCEPT ![r] =
               IF req[r].authorId \notin DOMAIN users THEN Respond(req[r], 404)
               ELSE [req[r] EXCEPT !.pc = "aqCreate"]]
  /\ UNCHANGED <<store, ops, serial, prev>>

\* prisma.question.create({ data: { title, content, imageUrl, authorId } })
AdminQuestionCreate(r) ==
  /\ req[r].kind = "adminQuestion" /\ req[r].pc = "aqCreate"
  /\ IF QuestionCreateAllowed(users, req[r].authorId)
     THEN /\ questions' = questions \cup {[id |-> nextQuestionId, authorId |-> req[r].authorId,
                                            title |-> req[r].title]}
          /\ nextQuestionId' = nextQuestionId + 1
          /\ req' = [req EXCEPT ![r] = [Respond(req[r], 201) EXCEPT !.questionId = nextQuestionId]]
     ELSE /\ UNCHANGED <<questions, nextQuestionId>>
          /\ req' = [req EXCEPT ![r] = Respond(req[r], 500)]
  /\ UNCHANGED <<users, votes, comments, nextCommentId, notifications, ops, serial, prev,
                 userRoles, sessions, issued, scrubbed, clock, emails>>

\* --------------- POST /api/admin/overview, action DELETE_INACTIVE_USERS
\* users that have linked a social account: every user, so that the filter
\* selects by inactivity alone
AccountHolders == UserIds

\* prisma.user.findMany({ where: { questions: none, comments: none, votes: none, Account: some } })
InactiveUsers ==
  {u \in DOMAIN users \cap AccountHolders :
     /\ \A q \in questions : q.authorId # u
     /\ \A c \in comments : c.authorId # u
     /\ \A row \in BagToSet(votes) : row.userId # u}

\* a row of some table references a user of `gone`
Referenced(gone) ==
  \/ \E q \in questions : q.authorId \in gone
  \/ \E c \in comments : c.authorId \in gone
  \/ \E row \in BagToSet(votes) : row.userId \in gone
  \/ \E n \in BagToSet(notifications) : n.userId \in gone
  \/ \E x \in sessions : x.userId \in gone
  \/ \E x \in userRoles : x.userId \in gone

\* the tables without the users of `gone` when the store removes the rows
\* that reference them, and the rows that reference those
RemoveUsers(gone) ==
  LET qs == {q \in questions : q.authorId \notin gone}
      goneQ == {q.id : q \in questions \ qs}
      cs == {c \in comments : c.authorId \notin gone /\ c.questionId \notin goneQ}
  IN  [notifications |-> [n \in {x \in BagToSet(notifications) : x.userId \notin gone} |-> notifications[n]],
       votes |-> [row \in {x \in BagToSet(votes) : x.userId \notin gone /\ x.questionId \notin goneQ}
                    |-> votes[row]],
       comments |-> Sweep(cs, {c.id : c \in comments \ cs}),
       questions |-> qs,
       userRoles |-> {x \in userRoles : x.userId \notin gone},
       sessions |-> {x \in sessions : x.userId \notin gone},
       users |-> [x \in DOMAIN users \ gone |-> users[x]]]

InactiveStart(r) ==
  /\ CanStart(r)
  /\ \E u \in UserIds \cup {Null} :
       req' = [req EXCEPT ![r] = IF u = Null THEN Refused("inactive", 403)
                                 ELSE [Idle EXCEPT !.kind = "inactive", !.pc = "inIsAdmin", !.userId = u]]
  /\ ops' = ops + 1
  /\ UNCHANGED <<store, serial>>
  /\ prev' = PrevAfter(r)

InactiveIsAdmin(r) ==
  /\ req[r].kind = "inactive" /\ req[r].pc = "inIsAdmin"
  /\ req' = [req EXCEPT ![r] = IF ~IsAdmin(users, req[r].userId) THEN Respond(req[r], 403)
                               ELSE [req[r] EXCEPT !.pc = "inFindMany"]]
  /\ UNCHANGED <<store, ops, serial, prev>>

InactiveFindMany(r) ==
  /\ req[r].kind = "inactive" /\ req[r].pc = "inFindMany"
  /\ req' = [req EXCEPT ![r] = [req[r] EXCEPT !.pc = "inDeleteMany", !.inactiveUsers = InactiveUsers]]
  /\ UNCHANGED <<store, ops, serial, prev>>

\* prisma.user.deleteMany({ where: { id: { in: inactiveUsers.map(user => user.id) } } }):
\* one statement; a row that references one of the users either makes it
\* throw or is removed by the store
InactiveDeleteMany(r) ==
  /\ req[r].kind = "inactive" /\ req[r].pc = "inDeleteMany"
  /\ LET gone == req[r].inactiveUsers \cap DOMAIN users
     IN  \E onDelete \in OnDelete :
           LET throws == onDelete = "Restrict" /\ Referenced(gone)
               after == RemoveUsers(gone)
           IN  IF throws
               THEN /\ UNCHANGED <<users, questions, votes, comments, notifications, userRoles,
                                   sessions, scrubbed, emails>>
                    /\ req' = [req EXCEPT ![r] = Respond(req[r], 500)]
               ELSE /\ users' = after.users
                    /\ questions' = after.questions
                    /\ votes' = after.votes
                    /\ comments' = after.comments
                    /\ notifications' = after.notifications
                    /\ userRoles' = after.userRoles
                    /\ sessions' = after.sessions
                    /\ emails' = [x \in DOMAIN after.users |-> emails[x]]
                    /\ scrubbed' = scrubbed \ gone
                    /\ req' = [req EXCEPT ![r] = Respond(req[r], 200)]
  /\ UNCHANGED <<nextCommentId, ops, serial, prev, issued, clock, nextQuestionId>>

\* --------------------------------------------------- POST /api/auth/signup
\* The sources hold two versions of the route: "signup" answers a refused
\* insert like a taken address, "signupPublic" has one catch for every error.
SignupKinds == {"signup", "signupPublic"}
NewEmail == "new@stackit"
SignupEmails == {NewEmail, "u2@stackit", Null}       \* body.email: Null when it does not validate

\* prisma.user.findUnique({ where: { email } })
EmailTaken(es, email) == \E id \in DOMAIN es : es[id] = email

\* what each version answers when prisma.user.create throws P2002
OnDuplicate(kind) == IF kind = "signup" THEN 400 ELSE 500

\* the id the store gives the row request r creates
NewUserId(r) == "n" \o ToString(ops * MaxReq + r)

\* request.json and the validation of the body
SignupStart(r) ==
  /\ CanStart(r)
  /\ \E kind \in SignupKinds, email \in SignupEmails :
       req' = [req EXCEPT ![r] = IF email = Null THEN Refused(kind, 400)
                                 ELSE [Idle EXCEPT !.kind = kind, !.pc = "suFindUser", !.email = email]]
  /\ ops' = ops + 1
  /\ UNCHANGED <<store, serial>>
  /\ prev' = PrevAfter(r)

\* existingUser: 400 in one version, 409 in the other
SignupFindUser(r) ==
  /\ req[r].kind \in SignupKinds /\ req[r].pc = "suFindUser"
  /\ req' = [req EXCEPT ![r] =
               IF EmailTaken(emails, req[r].email)
               THEN Respond(req[r], IF req[r].kind = "signup" THEN 400 ELSE 409)
               ELSE [req[r] EXCEPT !.pc = "suCreate"]]
  /\ UNCHANGED <<store, ops, serial, prev>>

\* bcrypt.hash and prisma.user.create({ data: { name, email, password, role: 'USER' } });
\* the insert throws P2002 when the address has been taken meanwhile
SignupCreate(r) ==
  /\ req[r].kind \in SignupKinds /\ req[r].pc = "suCreate"
  /\ IF EmailTaken(emails, req[r].email)
     THEN /\ UNCHANGED <<users, emails>>
          /\ req' = [req EXCEPT ![r] = Respond(req[r], OnDuplicate(req[r].kind))]
     ELSE /\ users' = [id \in DOMAIN users \cup {NewUserId(r)} |->
                         IF id = NewUserId(r) THEN "USER" ELSE users[id]]
          /\ emails' = [id \in DOMAIN emails \cup {NewUserId(r)} |->
                          IF id = NewUserId(r) THEN req[r].email ELSE emails[id]]
          /\ req' = [req EXCEPT ![r] = [Respond(req[r], 201) EXCEPT !.userId = NewUserId(r)]]
  /\ UNCHANGED <<questions, votes, comments, nextCommentId, notifications, ops, serial, prev,
                 userRoles, sessions, issued, scrubbed, clock, nextQuestionId>>

SignupStep(r) == SignupStart(r) \/ SignupFindUser(r) \/ SignupCreate(r)

\* ------------------------------------------------------- specifications
Titles == [id \in QuestionIds |-> "title " \o ToString(id)]

\* the address a seeded user signed up with
EmailOf(u) == u \o "@stackit"

\* the store after the signup of three users, the posting of two questions
\* and a vote of u3 on question 1; no request is being handled
InitUsers ==
  /\ users = [u \in UserIds |-> IF u = "u1" THEN "ADMIN" ELSE "USER"]
  /\ questions = {[id |-> 1, authorId |-> "u2", title |-> Titles[1]],
                  [id |-> 2, authorId |-> "u3", title |-> Titles[2]]}
  /\ votes = SetToBag({VoteRow(1, "u3", 1)})
  /\ req = [r \in Req |-> Idle]
  /\ ops = 0
  /\ prev = Idle
  /\ userRoles = {}
  /\ scrubbed = {}
  /\ clock = 0
  /\ nextQuestionId = 3
  /\ emails = [u \in UserIds |-> EmailOf(u)]

\* and after a comment of u1 on question 1
InitTables ==
  /\ InitUsers
  /\ comments = {[id |-> 1, questionId |-> 1, authorId |-> "u1", parentId |-> NoRow]}
  /\ nextCommentId = 2
  /\ notifications = SetToBag({Notification("u2", "QUESTION_COMMENT", QuestionCommentMessage, 1)})

\* the sign-ins of the users in `who` at time 0
SignedIn(who) ==
  /\ sessions = {SessionRow(Sign(u, 0), 0) : u \in who}
  /\ issued = {Sign(u, 0) : u \in who}

\* u2 has signed in
InitStore == InitTables /\ SignedIn({"u2"})

\* a run is either serial (one request at a time) or free to interleave
Init == InitStore /\ serial \in BOOLEAN
InitConcurrent == InitStore /\ serial = FALSE

VoteStep(r) ==
  \/ VoteStart(r) \/ VoteFindQuestion(r) \/ VoteFindExisting(r) \/ VoteWrite(r) \/ VoteStats(r)

GetStep(r) ==
  \/ GetStart(r) \/ GetFindQuestion(r) \/ GetStats(r) \/ GetUserVote(r)

DeleteStep(r) ==
  \/ DeleteStart(r) \/ DeleteFindQuestion(r) \/ DeleteFindUser(r) \/ DeleteTx(r)

CommentStep(r) ==
  \/ CommentStart(r) \/ CommentFindQuestion(r) \/ CommentFindParent(r) \/ CommentTx(r)

EditStep(r) ==
  \/ EditStart(r) \/ EditFindQuestion(r) \/ EditFindUser(r) \/ EditTags(r) \/ EditUpdate(r)

RoleStep(r) ==
  \/ RolePutStart(r) \/ RolePutFindCurrent(r) \/ RolePutFindTarget(r) \/ RolePutUpdate(r)
  \/ UserPutStart(r) \/ UserPutFindUser(r) \/ UserPutUpdate(r)
  \/ AdminUserPutStart(r) \/ AdminUserPutIsAdmin(r) \/ AdminUserPutFindUser(r) \/ AdminUserPutUpdate(r)
  \/ AdminActionStart(r) \/ AdminActionIsAdmin(r) \/ AdminActionUpdate(r)

AuthStep(r) ==
  \/ CommentStartFrom(r, UserIds \cup {Null}) \/ CommentFindQuestion(r) \/ CommentFindParent(r)
  \/ CommentTx(r)
  \/ UserPutStart(r) \/ UserPutFindUser(r) \/ UserPutUpdate(r)
  \/ UserPostStart(r) \/ UserPostWrite(r)

SessionStep(r) ==
  \/ SignInStart(r) \/ SignInFindUser(r) \/ SignInCreate(r)
  \/ ResolveStart(r) \/ ResolveFindSession(r) \/ ResolveCleanup(r)
  \/ MeDeleteWrite(r)

AdminQuestionStep(r) ==
  \/ AdminQuestionStart(r) \/ AdminQuestionIsAdmin(r) \/ AdminQuestionFindAuthor(r)
  \/ AdminQuestionCreate(r)

InactiveStep(r) ==
  \/ InactiveStart(r) \/ InactiveIsAdmin(r) \/ InactiveFindMany(r) \/ InactiveDeleteMany(r)

NotifyStep(r) ==
  \/ NotifyPostStart(r) \/ NotifyPostFindCurrent(r) \/ NotifyPostFindTarget(r) \/ NotifyPostCreate(r)
  \/ MarkStart(r) \/ MarkUpdateAll(r) \/ MarkVerify(r) \/ MarkUpdateIds(r) \/ MarkCount(r)
  \/ NotifyDeleteStart(r) \/ NotifyDeleteAll(r) \/ NotifyDeleteVerify(r) \/ NotifyDeleteIds(r)
  \/ ClearStart(r) \/ ClearIsAdmin(r) \/ ClearDelete(r)

ListStep(r) ==
  \/ ListStart(r) \/ ListFindQuestion(r) \/ ListFindMany(r) \/ ListCount(r)

\* every handler, and the clock
Next ==
  \/ Tick
  \/ \E r \in Req : \/ VoteStep(r) \/ GetStep(r) \/ DeleteStep(r) \/ CommentStep(r) \/ EditStep(r)
                    \/ RoleStep(r) \/ AuthStep(r) \/ SessionStep(r) \/ ListStep(r)
                    \/ AdminQuestionStep(r) \/ InactiveStep(r) \/ NotifyStep(r) \/ SignupStep(r)

\* the traffic of one area of the store
NextVote == \E r \in Req : VoteStep(r) \/ GetStep(r) \/ DeleteStep(r)
NextComment == \E r \in Req : CommentStep(r) \/ DeleteStep(r)
NextEdit == \E r \in Req : EditStep(r) \/ DeleteStep(r)
NextRole == \E r \in Req : RoleStep(r)
NextAuth == \E r \in Req : AuthStep(r)
NextSession == Tick \/ \E r \in Req : SessionStep(r)

Spec == Init /\ [][Next]_vars
SpecVote == Init /\ [][NextVote]_vars
SpecComment == InitConcurrent /\ [][NextComment]_vars
SpecEdit == InitConcurrent /\ [][NextEdit]_vars
SpecRole == InitConcurrent /\ [][NextRole]_vars
SpecAuth == InitConcurrent /\ [][NextAuth]_vars
SpecSession == InitConcurrent /\ [][NextSession]_vars

\* sign-ins and account deletions, one after the other or interleaved
SpecSignIn == Init /\ [][NextSession]_vars

\* signups, one after the other or interleaved
NextSignup == \E r \in Req : SignupStep(r)
SpecSignup == Init /\ [][NextSignup]_vars

\* the same store after u1 and u2 have signed in
InitForest == InitTables /\ SignedIn({"u1", "u2"}) /\ serial = FALSE

\* DELETE /api/auth/me while no session runs out
MeDeleteStep(r) ==
  \/ ResolveStartOf(r, {"meDelete"}) \/ ResolveFindSession(r) \/ MeDeleteWrite(r)

\* comments against the deletion of the accounts of their authors
NextForest == \E r \in Req : CommentStep(r) \/ MeDeleteStep(r)
SpecForest == InitForest /\ [][NextForest]_vars

\* a thread on question 1 in which every comment answers the one before
ThreadLength == IncludeDepth + 2
ThreadAuthor(i) == IF i % 2 = 1 THEN "u1" ELSE "u3"
Thread(n) == {[id |-> i, questionId |-> 1, authorId |-> ThreadAuthor(i), parentId |-> i - 1] : i \in 1..n}

\* the notifications the comments of the thread produced
RECURSIVE ThreadNotifications(_)
ThreadNotifications(n) ==
  IF n = 0 THEN EmptyBag
  ELSE ThreadNotifications(n - 1)
         (+) SetToBag(FanOut(Thread(n), {[id |-> 1, authorId |-> "u2", title |-> Titles[1]]},
                             1, ThreadAuthor(n), n - 1))

\* the store after u1 and u3 have answered each other on question 1
InitThread ==
  /\ InitUsers /\ SignedIn({"u2"}) /\ serial \in BOOLEAN
  /\ comments = Thread(ThreadLength)
  /\ nextCommentId = ThreadLength + 1
  /\ notifications = ThreadNotifications(ThreadLength)

\* the store before the first comment, u2 signed in
InitAuthors ==
  /\ InitUsers /\ SignedIn({"u2"}) /\ serial = FALSE
  /\ comments = {}
  /\ nextCommentId = 1
  /\ notifications = EmptyBag

\* the creation of questions against the removal of users
NextAuthors == \E r \in Req : AdminQuestionStep(r) \/ MeDeleteStep(r) \/ InactiveStep(r)
SpecAuthors == InitAuthors /\ [][NextAuthors]_vars

\* the notification routes, and the deletion of an account
NextNotify == \E r \in Req : NotifyStep(r) \/ MeDeleteStep(r)
SpecNotify == InitConcurrent /\ [][NextNotify]_vars

\* readers of the comments of a question, and its deletion
NextList == \E r \in Req : ListStep(r) \/ DeleteStep(r)
SpecList == InitThread /\ [][NextList]_vars

\* questions that take a common title, and their deletion
NextFrame ==
  \E r \in Req : \/ RetitleStart(r) \/ EditFindQuestion(r) \/ EditFindUser(r) \/ EditTags(r)
                  \/ EditUpdate(r) \/ DeleteStep(r)
SpecFrame == InitConcurrent /\ [][NextFrame]_vars

\* the administrator's role action against the deletions of questions
GateStep(r) ==
  \/ AdminActionStart(r) \/ AdminActionIsAdmin(r) \/ AdminActionUpdate(r)
  \/ DeleteStep(r)

NextGate == \E r \in Req : GateStep(r)
SpecGate == InitConcurrent /\ [][NextGate]_vars

\* ------------------------------------------------------------- properties
\* number of Vote rows stored under one (questionId, userId) key
KeyCount(vs, q, u) == BagCardinality([row \in VoteRows(vs, q, u) |-> vs[row]])

\* request r takes a step of its handler
Moved(r) == req'[r].pc # req[r].pc

\* C1: in every reachable state, whatever the interleaving of vote requests,
\* the Vote table holds at most one row for each (questionId, userId) pair.
C1_AtMostOneVotePerPair ==
  \A q \in QuestionIds, u \in UserIds : KeyCount(votes, q, u) <= 1

\* two overlapping first votes of one user: one row is stored, the racing insert was refused
C1_Witness ==
  \E r \in Req : /\ req[r].kind = "vote" /\ req[r].pc = "done" /\ req[r].status = 500
                 /\ req[r].paired /\ req[r].row0 = NoRow
                 /\ KeyCount(votes, req[r].questionId, req[r].userId) = 1

\* C2: in a serial run, a vote of value v by a user who holds no vote on the
\* question, followed at once by the same vote again, leaves no Vote row for
\* the pair and the score of the question at its value before the first vote.
C2_ToggleOff ==
  ( /\ serial
    /\ req[1].kind = "vote" /\ req[1].pc = "done" /\ req[1].status = 200
    /\ prev.kind = "vote" /\ prev.status = 200
    /\ prev.userId = req[1].userId /\ prev.questionId = req[1].questionId
    /\ prev.value = req[1].value
    /\ prev.row0 = NoRow )
  => /\ KeyCount(votes, req[1].questionId, req[1].userId) = 0
     /\ Score(votes, req[1].questionId) = prev.score0

\* the second of two equal votes has been answered, on a question another user had voted on
C2_Witness ==
  /\ serial
  /\ req[1].kind = "vote" /\ req[1].pc = "done" /\ req[1].status = 200
  /\ prev.kind = "vote" /\ prev.status = 200
  /\ prev.userId = req[1].userId /\ prev.questionId = req[1].questionId
  /\ prev.value = req[1].value
  /\ prev.row0 = NoRow
  /\ prev.score0 # 0

\* the write step of request r that switches the direction of an existing vote
SwitchStep(r) ==
  /\ req[r].kind = "vote" /\ req[r].pc = "write" /\ req'[r].pc = "stats"
  /\ req[r].existingVote # NoRow /\ req[r].existingVote # req[r].value

\* C3: a vote of the opposite value by a user who holds a vote changes the row
\* in place: the step that switches goes from a ledger with the row of the
\* pair to a ledger with exactly one row of the pair, carrying the cast value,
\* so no reader sees the pair without a row in between; and in a serial run
\* +1 followed by -1 (or -1 by +1) ends with exactly one row of the cast value.
C3_DirectionSwitch ==
  /\ [][\A r \in Req : SwitchStep(r) =>
           /\ KeyCount(votes, req[r].questionId, req[r].userId) = 1
           /\ KeyCount(votes', req[r].questionId, req[r].userId) = 1
           /\ VoteFindUnique(votes', req[r].questionId, req[r].userId) = req[r].value]_vars
  /\ []( ( /\ serial
           /\ req[1].kind = "vote" /\ req[1].pc = "done" /\ req[1].status = 200
           /\ req[1].row0 \in {1, -1} /\ req[1].row0 # req[1].value )
         => /\ KeyCount(votes, req[1].questionId, req[1].userId) = 1
            /\ VoteFindUnique(votes, req[1].questionId, req[1].userId) = req[1].value )

\* a user who held +1 has been answered after casting -1
C3_Witness ==
  \E r \in Req : /\ req[r].kind = "vote" /\ req[r].pc = "done" /\ req[r].status = 200
                 /\ req[r].row0 = 1 /\ req[r].value = -1 /\ ~req[r].paired
                 /\ VoteFindUnique(votes, req[r].questionId, req[r].userId) = -1

\* the author of the question a vote request names, while the question exists
IsAuthor(rec) ==
  /\ QuestionExists(questions, rec.questionId)
  /\ QuestionFindUnique(questions, rec.questionId).authorId = rec.userId

\* C4: a vote of +1 or -1 by the author of the question is answered 403 and
\* no step of such a request changes the Vote table; no stored Vote row
\* belongs to the author of its question.
C4_NoSelfVote ==
  /\ [][\A r \in Req : (req[r].kind = "vote" /\ InFlight(r) /\ IsAuthor(req[r]) /\ Moved(r)) =>
           /\ votes' = votes
           /\ req'[r].pc = "done" /\ req'[r].status = 403]_vars
  /\ [](\A row \in BagToSet(votes) :
           QuestionFindUnique(questions, row.questionId).authorId # row.userId)
  /\ [](\A r \in Req : (req[r].kind = "vote" /\ req[r].pc = "done" /\ req[r].value \in {1, -1}
                         /\ IsAuthor(req[r])) => req[r].status = 403)

\* an author has been refused while the question carries votes of other users
C4_Witness ==
  \E r \in Req : /\ req[r].kind = "vote" /\ req[r].pc = "done" /\ req[r].status = 403
                 /\ IsAuthor(req[r])
                 /\ UpCount(votes, req[r].questionId) + DownCount(votes, req[r].questionId) > 0

\* the step in which a vote request or a vote query computes its aggregate
StatsStep(r) ==
  \/ req[r].kind = "vote" /\ req[r].pc = "stats" /\ Moved(r)
  \/ req[r].kind = "get" /\ req[r].pc = "getStats" /\ Moved(r)

\* C5: the aggregate a vote request returns is computed, after its own write,
\* from the ledger as it is then: upvotes is the number of +1 rows of the
\* question, downvotes the number of -1 rows, totalScore their difference;
\* the vote query computes the same from the current ledger; in a serial run
\* the returned aggregate is that of the ledger the request leaves behind.
C5_AggregateFromLedger ==
  /\ [][\A r \in Req : StatsStep(r) =>
           /\ req'[r].upvotes = UpCount(votes, req[r].questionId)
           /\ req'[r].downvotes = DownCount(votes, req[r].questionId)
           /\ req'[r].totalScore = req'[r].upvotes - req'[r].downvotes]_vars
  /\ []( (serial /\ req[1].kind = "vote" /\ req[1].pc = "done" /\ req[1].status = 200)
         => /\ req[1].upvotes = UpCount(votes, req[1].questionId)
            /\ req[1].downvotes = DownCount(votes, req[1].questionId)
            /\ req[1].totalScore = Score(votes, req[1].questionId) )

\* a vote has been answered with one vote up and one vote down on the question
C5_Witness ==
  \E r \in Req : /\ req[r].kind = "vote" /\ req[r].pc = "done" /\ req[r].status = 200
                 /\ req[r].upvotes = 1 /\ req[r].downvotes = 1 /\ req[r].totalScore = 0

\* the vote state machine of one user on one question: NoRow, +1, -1
Toggle(row, v) == IF row = v THEN NoRow ELSE v

\* requests r1 and r2 are two answered votes of one user on another user's question that overlapped
ConcurrentPair(r1, r2) ==
  /\ r1 # r2
  /\ req[r1].kind = "vote" /\ req[r1].pc = "done" /\ req[r1].paired
  /\ req[r2].kind = "vote" /\ req[r2].pc = "done" /\ req[r2].paired
  /\ req[r1].userId = req[r2].userId /\ req[r1].questionId = req[r2].questionId
  /\ QuestionExists(questions, req[r1].questionId)
  /\ ~IsAuthor(req[r1])

\* C6: two concurrent vote requests of one user on one question behave as if
\* run one after the other: neither is answered with an internal error and
\* the row they leave is the one a serial order of the two would leave.
C6_ConcurrentVotesSerialize ==
  \A r1, r2 \in Req : ConcurrentPair(r1, r2) =>
    /\ req[r1].status # 500 /\ req[r2].status # 500
    /\ VoteFindUnique(votes, req[r1].questionId, req[r1].userId)
         \in {Toggle(Toggle(req[r1].row0, req[r1].value), req[r2].value),
              Toggle(Toggle(req[r1].row0, req[r2].value), req[r1].value)}

\* C7: a vote on a question that does not exist is answered 404 at the
\* lookup, no step of a vote request on a missing question changes the Vote
\* table (a request that was past the lookup when the question went ends in
\* an error), and every stored Vote row references an existing question.
C7_VoteNeedsQuestion ==
  /\ [][\A r \in Req :
          ( /\ req[r].kind = "vote" /\ InFlight(r) /\ Moved(r)
            /\ ~QuestionExists(questions, req[r].questionId) )
          => /\ votes' = votes
             /\ req[r].pc = "findQuestion" => (req'[r].pc = "done" /\ req'[r].status = 404)
             /\ req[r].pc = "write" => (req'[r].pc = "done" /\ req'[r].status = 500)]_vars
  /\ [](\A row \in BagToSet(votes) : QuestionExists(questions, row.questionId))

\* a vote raced the deletion of its question and found the question gone
C7_Witness ==
  \E r1, r2 \in Req :
    /\ req[r1].kind = "vote" /\ req[r1].pc = "done" /\ req[r1].status = 404
    /\ req[r2].kind = "delete" /\ req[r2].pc = "done" /\ req[r2].status = 200
    /\ req[r1].questionId = req[r2].questionId
    /\ ~QuestionExists(questions, req[r1].questionId)

\* notifications stored in all, for one user, and unread for one user
Total(ns) == BagCardinality(ns)
CountFor(ns, u) == BagCardinality([n \in {x \in BagToSet(ns) : x.userId = u} |-> ns[n]])
UnreadFor(ns, u) == BagCardinality([n \in {x \in BagToSet(ns) : x.userId = u /\ ~x.isRead} |-> ns[n]])

\* the transaction of comment request r commits a new Comment row
CommentCreated(r) ==
  /\ req[r].kind = "comment" /\ req[r].pc = "comTx" /\ req'[r].pc = "done"
  /\ req'[r].status = 201
  /\ Cardinality(comments') = Cardinality(comments) + 1

AuthorOf(q) == QuestionFindUnique(questions, q).authorId

\* C8: adding a comment without parent to a question authored by a creates
\* exactly one notification, unread and addressed to a, when the commenter
\* is not a, and none when the commenter is a.
C8_TopLevelFanOut ==
  [][\A r \in Req : (CommentCreated(r) /\ req[r].parentId = NoRow) =>
        IF req[r].authorId # AuthorOf(req[r].questionId)
        THEN /\ Total(notifications') = Total(notifications) + 1
             /\ UnreadFor(notifications', AuthorOf(req[r].questionId))
                  = UnreadFor(notifications, AuthorOf(req[r].questionId)) + 1
        ELSE notifications' = notifications]_vars

\* a stranger and the author have both commented on question 2: one notification more
C8_Witness ==
  \E r1, r2 \in Req :
    /\ req[r1].kind = "comment" /\ req[r1].pc = "done" /\ req[r1].status = 201
    /\ req[r2].kind = "comment" /\ req[r2].pc = "done" /\ req[r2].status = 201
    /\ req[r1].parentId = NoRow /\ req[r2].parentId = NoRow
    /\ req[r1].questionId = req[r2].questionId
    /\ QuestionExists(questions, req[r1].questionId)
    /\ req[r1].authorId # AuthorOf(req[r1].questionId)
    /\ req[r2].authorId = AuthorOf(req[r2].questionId)
    /\ req[r1].questionId = 2
    /\ Total(notifications) = 2
    /\ UnreadFor(notifications, AuthorOf(req[r1].questionId)) = 1

ParentAuthor(p) == CommentFindUnique(comments, p).authorId

\* C9: adding a reply to a comment authored by p creates exactly one
\* notification, addressed to p, when the commenter is not p, and none when
\* the commenter is p; the author of the question, when not p, gets none.
C9_ReplyFanOut ==
  [][\A r \in Req : (CommentCreated(r) /\ req[r].parentId # NoRow) =>
        /\ IF req[r].authorId # ParentAuthor(req[r].parentId)
           THEN /\ Total(notifications') = Total(notifications) + 1
                /\ CountFor(notifications', ParentAuthor(req[r].parentId))
                     = CountFor(notifications, ParentAuthor(req[r].parentId)) + 1
           ELSE notifications' = notifications
        /\ AuthorOf(req[r].questionId) # ParentAuthor(req[r].parentId)
             => CountFor(notifications', AuthorOf(req[r].questionId))
                  = CountFor(notifications, AuthorOf(req[r].questionId))]_vars

\* a third user has replied to a stranger's comment: one notification each for
\* the question's author (the comment) and the stranger (the reply)
C9_Witness ==
  \E r \in Req :
    /\ req[r].kind = "comment" /\ req[r].pc = "done" /\ req[r].status = 201
    /\ req[r].parentId # NoRow
    /\ QuestionExists(questions, req[r].questionId)
    /\ CommentFindUnique(comments, req[r].parentId).id # NoRow
    /\ ParentAuthor(req[r].parentId) # req[r].authorId
    /\ ParentAuthor(req[r].parentId) # AuthorOf(req[r].questionId)
    /\ req[r].authorId # AuthorOf(req[r].questionId)
    /\ CountFor(notifications, ParentAuthor(req[r].parentId)) = 1
    /\ CountFor(notifications, AuthorOf(req[r].questionId)) = 1
    /\ Total(notifications) = 2

\* parentId p names no comment of question q
BadParent(cs, q, p) == ~\E c \in cs : c.id = p /\ c.questionId = q

\* C10: a comment request whose parentId names a comment that does not exist
\* or that belongs to another question is rejected: its validation answers
\* 400, its transaction (when the parent went after the validation) fails,
\* and no step of it creates a Comment row or a Notification.
C10_NoCrossQuestionParent ==
  [][\A r \in Req :
        ( /\ req[r].kind = "comment" /\ InFlight(r) /\ Moved(r)
          /\ req[r].parentId # NoRow
          /\ BadParent(comments, req[r].questionId, req[r].parentId) )
        => /\ comments' = comments
           /\ notifications' = notifications
           /\ req[r].pc = "comFindParent" => (req'[r].pc = "done" /\ req'[r].status = 400)
           /\ req[r].pc = "comTx" => (req'[r].pc = "done" /\ req'[r].status = 500)]_vars

\* a reply naming a comment of the other question has been refused
C10_Witness ==
  \E r \in Req :
    /\ req[r].kind = "comment" /\ req[r].pc = "done" /\ req[r].status = 400
    /\ req[r].parentId # NoRow
    /\ QuestionExists(questions, req[r].questionId)
    /\ CommentFindUnique(comments, req[r].parentId).id # NoRow
    /\ CommentFindUnique(comments, req[r].parentId).questionId # req[r].questionId

\* the comment rows a step adds
Added == comments' \ comments

\* the user a new comment row is about: the author of its parent, or of its question
Recipient(c) ==
  IF c.parentId # NoRow THEN CommentFindUnique(comments', c.parentId).authorId
  ELSE QuestionFindUnique(questions, c.questionId).authorId

\* the notification a new comment row calls for, if any
CalledFor(c) ==
  IF Recipient(c) = c.authorId THEN {}
  ELSE {Notification(Recipient(c), IF c.parentId # NoRow THEN "COMMENT_REPLY" ELSE "QUESTION_COMMENT",
                     IF c.parentId # NoRow THEN CommentReplyMessage ELSE QuestionCommentMessage,
                     c.questionId)}

\* C11: the comment and its notification are committed together: every step
\* that adds a Comment row adds, in the same step, exactly the notification
\* the row calls for, every step that adds a notification adds its comment,
\* and a comment request whose transaction fails leaves both tables as they were.
C11_CommentAndNotificationAtomic ==
  [][/\ \A c \in Added : notifications' = notifications (+) SetToBag(CalledFor(c))
     /\ Total(notifications') > Total(notifications) => Cardinality(Added) = 1
     /\ \A r \in Req : (req[r].kind = "comment" /\ req[r].pc = "comTx" /\ req'[r].status = 500)
                         => comments' = comments /\ notifications' = notifications]_vars

\* one transaction has failed on its comment row and stored nothing, another
\* has committed a comment together with its notification
C11_Witness ==
  \E r1, r2 \in Req :
    /\ req[r1].kind = "comment" /\ req[r1].pc = "done" /\ req[r1].status = 500
    /\ req[r1].authorId = "u9"
    /\ req[r2].kind = "comment" /\ req[r2].pc = "done" /\ req[r2].status = 201
    /\ req[r2].authorId # AuthorOf(req[r2].questionId) /\ req[r2].parentId = NoRow
    /\ Cardinality(comments) = 2
    /\ Total(notifications) = 2

\* request r takes a step that writes to a table
Writes(r) ==
  /\ InFlight(r) /\ Moved(r)
  /\ <<users, questions, votes, comments, notifications, userRoles>>
       # <<users', questions', votes', comments', notifications', userRoles'>>

\* C12: a step that changes stored state belongs to a request sent by an
\* authenticated caller, and the Comment row a request creates carries the id
\* of the caller that sent it as authorId.
C12_WritesNeedPrincipal ==
  [][\A r \in Req : Writes(r) =>
        /\ req[r].userId # Null
        /\ \A c \in Added : c.authorId = req[r].userId]_vars

\* the rows that depend on question q: its votes, its comments at any depth
\* and the notifications its comments produced
VotesOf(q) == {row \in BagToSet(votes) : row.questionId = q}
CommentsOf(q) == {c \in comments : c.questionId = q}
NotificationsAbout(q) == {n \in BagToSet(notifications) : n.about = q}

\* C13: once a question has been deleted, the store holds no Question row,
\* no Vote, no Comment and no Notification produced by a comment on it.
C13_CascadeComplete ==
  \A q \in QuestionIds : ~QuestionExists(questions, q) =>
    /\ VotesOf(q) = {}
    /\ CommentsOf(q) = {}
    /\ NotificationsAbout(q) = {}

\* the transaction step of the deletion request r
CascadeStep(r) == req[r].kind = "delete" /\ req[r].pc = "delTx" /\ Moved(r)

HardDeleteStep(r) ==
  /\ req[r].kind = "meDelete" /\ req[r].pc = "meDeleteWrite" /\ req[r].hard /\ Moved(r)
  /\ req[r].userId \in DOMAIN users

\* C15: the hard delete of user u succeeds whatever other users have attached
\* to u's questions, and leaves no User row, Session, Notification, Vote,
\* Comment, Question or role assignment of u, and no Vote, Comment or
\* Notification of any user on a question u had authored.
C15_HardDeleteCascade ==
  [][\A r \in Req : HardDeleteStep(r) =>
        LET u == req[r].userId
            ownQ == {q.id : q \in {x \in questions : x.authorId = u}}
        IN  /\ req'[r].status = 200
            /\ u \notin DOMAIN users'
            /\ \A x \in sessions' : x.userId # u
            /\ \A x \in userRoles' : x.userId # u
            /\ \A n \in BagToSet(notifications') : n.userId # u /\ n.about \notin ownQ
            /\ \A row \in BagToSet(votes') : row.userId # u /\ row.questionId \notin ownQ
            /\ \A c \in comments' : c.authorId # u /\ c.questionId \notin ownQ
            /\ \A q \in questions' : q.authorId # u]_vars

\* the caller of request r may edit or delete the question the request read
Permitted(r) ==
  \/ req[r].existingQuestion.authorId = req[r].userId
  \/ IsAdmin(users, req[r].userId)

\* C16: through the question routes a question is edited or deleted only by
\* its author or by an ADMIN: every step of an edit or delete request that
\* changes a table belongs to such a caller, every change of the Question
\* table is such a step, and the role check answers any other authenticated
\* caller with 403, the question, its votes, comments and notifications
\* being left as they were by every step of that request.
C16_OwnerOrAdmin ==
  /\ [][\A r \in Req : (req[r].kind \in {"edit", "delete"} /\ InFlight(r) /\ Moved(r)) =>
          /\ <<questions', votes', comments', notifications'>> # <<questions, votes, comments, notifications>>
               => Permitted(r) /\ req[r].userId # Null
          /\ (req[r].pc \in {"editFindUser", "delFindUser"} /\ ~Permitted(r))
               => req'[r].pc = "done" /\ req'[r].status = 403]_vars
  /\ [][questions' # questions =>
          \E r \in Req : req[r].kind \in {"edit", "delete"} /\ Moved(r) /\ Permitted(r)]_vars
  /\ [](\A r \in Req : (req[r].kind \in {"edit", "delete"} /\ req[r].pc = "done" /\ req[r].status = 200)
           => req[r].userId # Null)

\* a user who is neither author nor ADMIN has been refused the edit of a question
\* that an ADMIN who is not its author has then deleted
C16_Witness ==
  \E r1, r2 \in Req :
    /\ req[r1].kind = "edit" /\ req[r1].pc = "done" /\ req[r1].status = 403
    /\ req[r1].userId = "u3" /\ req[r1].questionId = 1
    /\ req[r2].kind = "delete" /\ req[r2].pc = "done" /\ req[r2].status = 200
    /\ req[r2].userId = "u1" /\ req[r2].questionId = 1
    /\ ~QuestionExists(questions, 1)

\* C17: whichever operation writes it, the role of an existing user changes
\* only in a step of a request whose caller has role ADMIN.
C17_RoleChangedByAdminOnly ==
  [][\A id \in DOMAIN users : (id \in DOMAIN users' /\ users'[id] # users[id]) =>
        \E r \in Req : InFlight(r) /\ Moved(r) /\ IsAdmin(users, req[r].userId)]_vars

\* C18: no request changes the role of the user who sent it, neither from
\* ADMIN to USER nor from USER to ADMIN.
C18_NoSelfRoleChange ==
  [][\A r \in Req : (InFlight(r) /\ Moved(r) /\ req[r].userId \in DOMAIN users) =>
        users'[req[r].userId] = users[req[r].userId]]_vars

\* request r ends its identity resolution in this step without a principal
Unresolved(r) ==
  /\ req'[r].kind \in ResolverKinds /\ req'[r].pc = "done" /\ req'[r] # req[r]
  /\ req[r].pc # "meDeleteWrite"

\* request r obtains a principal in this step
Resolved(r) ==
  /\ req[r].kind \in ResolverKinds /\ req[r].pc = "findSession"
  /\ \/ req'[r].pc = "meDeleteWrite"
     \/ req'[r].pc = "done" /\ req'[r].status = 200

\* the Session row of a token, or NoSession
SessionOf(token) == SessionFindUnique(sessions, token)

\* C19: a resolution of identity made with the token of a session whose
\* expiry time has passed returns Unauthenticated and leaves no Session row
\* for that token.
C19_ExpiredSessionReclaimed ==
  [][\A r \in Req :
        ( /\ req'[r].kind \in ResolverKinds /\ req'[r] # req[r] /\ req[r].pc \notin {"findSession", "cleanup", "meDeleteWrite"}
          /\ SessionOf(req'[r].token) # NoSession
          /\ SessionExpired(SessionOf(req'[r].token), clock) )
        => /\ req'[r].pc # "done" \/ req'[r].status = 401
           /\ req'[r].pc = "done" => \A x \in sessions' : x.sessionToken # req'[r].token]_vars

\* C20: a resolution of identity returns a principal only for a token whose
\* signature verified and whose Session row exists and has not expired; with
\* no Session row for the token (the row was deleted) it returns
\* Unauthenticated, also while the token itself still verifies.
C20_RevocationIsImmediate ==
  /\ [][\A r \in Req : Resolved(r) =>
          /\ req[r].token.signed
          /\ SessionOf(req[r].token) # NoSession
          /\ ~(SessionOf(req[r].token).expires < clock)
          /\ req'[r].userId = SessionOf(req[r].token).userId]_vars
  /\ [][\A r \in Req :
          (req[r].kind \in ResolverKinds /\ req[r].pc = "findSession" /\ Moved(r)
           /\ SessionOf(req[r].token) = NoSession)
          => req'[r].pc = "done" /\ req'[r].status = 401]_vars
  /\ [](\A r \in Req : (req[r].kind \in ResolverKinds /\ req[r].pc \in {"findSession", "meDeleteWrite"})
           => req[r].token.signed /\ req[r].token \in issued)

\* the account of the token's user was hard-deleted, and a later resolution
\* with the token, which still verifies, was answered Unauthenticated
C20_Witness ==
  \E r1, r2 \in Req :
    /\ req[r1].kind = "meDelete" /\ req[r1].pc = "done" /\ req[r1].status = 200 /\ req[r1].hard
    /\ req[r2].kind = "authCheck" /\ req[r2].pc = "done" /\ req[r2].status = 401
    /\ req[r2].token = req[r1].token
    /\ JwtVerify(req[r2].token, clock)
    /\ SessionOf(req[r2].token) = NoSession
    /\ req[r1].userId \notin DOMAIN users

\* the step of sign-in request r that signs the token and stores the session
SignInWrites(r) ==
  /\ req[r].kind = "signin" /\ req[r].pc = "signCreate" /\ Moved(r)
  /\ req[r].userId \in DOMAIN users

\* C21: a sign-in that passed the password check succeeds and adds exactly one
\* Session row, owned by the user who signs in, to the rows there were; every
\* other Session row stays, also when the same user signed in a moment before.
C21_SignInAddsSession ==
  [][\A r \in Req : SignInWrites(r) =>
        /\ req'[r].status = 200
        /\ \E x \in sessions' \ sessions :
             /\ sessions' = sessions \cup {x}
             /\ x.userId = req[r].userId]_vars

\* following parentId from comment id upwards ends at null within fuel steps
RECURSIVE ReachesRoot(_, _)
ReachesRoot(id, fuel) ==
  IF id = NoRow THEN TRUE
  ELSE IF fuel = 0 THEN FALSE
  ELSE ReachesRoot(CommentFindUnique(comments, id).parentId, fuel - 1)

ListReads(r) == req[r].kind = "list" /\ req[r].pc = "listFindMany" /\ Moved(r)

\* a sequence of ids in descending order
Descending(seq) == \A i, j \in DOMAIN seq : i < j => seq[i] > seq[j]

\* C23: the tree a list request reads holds every comment of the question,
\* whatever its depth, once; its top level is the comments without parent,
\* most recent first; and the answer's totalComments is the number of
\* comments in the returned tree.
C23_ListReturnsForest ==
  /\ [][\A r \in Req : ListReads(r) =>
          /\ req'[r].returned = {c.id : c \in CommentsOf(req[r].questionId)}
          /\ {req'[r].roots[i] : i \in DOMAIN req'[r].roots}
               = {c.id : c \in TopLevel(comments, req[r].questionId)}
          /\ Descending(req'[r].roots)]_vars
  /\ [](\A r \in Req : (req[r].kind = "list" /\ req[r].pc = "done" /\ req[r].status = 200)
           => Cardinality(req[r].returned) = req[r].totalComments)

\* C24: in every reachable state the author of every stored question is a
\* stored user: questions are created for existing authors only, and no
\* removal of users, however it interleaves with the creation of questions,
\* leaves a question behind whose author is gone.
C24_QuestionAuthorExists ==
  \A q \in questions : q.authorId \in DOMAIN users

\* a question for author u2 was being created when u2 deleted the account:
\* the creation failed, and u2's earlier question went with the account
C24_Witness ==
  \E r1, r2 \in Req :
    /\ req[r1].kind = "adminQuestion" /\ req[r1].pc = "done" /\ req[r1].status = 500
    /\ req[r1].authorId = "u2"
    /\ req[r2].kind = "meDelete" /\ req[r2].pc = "done" /\ req[r2].status = 200 /\ req[r2].hard
    /\ "u2" \notin DOMAIN users
    /\ ~QuestionExists(questions, 1)
    /\ QuestionExists(questions, 2)

\* the role of user u, Null for a user that is not stored
RoleOf(u) == IF u \in DOMAIN users THEN users[u] ELSE Null

\* the notifications a step adds, as rows
NewRows == {n \in BagToSet(notifications') :
              n \notin BagToSet(notifications) \/ notifications'[n] > notifications[n]}

\* C25: a request to create a notification stores a row for a user other
\* than its caller only when the caller has role ADMIN; the caller who is
\* not ADMIN is answered 403 at the role test and no step of that request
\* changes the Notification table; and the row a request stores is addressed
\* to its target, which is a stored user.
C25_NotifyOthersAdminOnly ==
  /\ [][\A r \in Req : (req[r].kind = "notifyPost" /\ InFlight(r) /\ Moved(r)) =>
          /\ \A n \in NewRows :
               /\ n.userId = req[r].targetId
               /\ n.userId \in DOMAIN users
               /\ n.userId # req[r].userId => RoleOf(req[r].userId) = "ADMIN"
          /\ (req[r].targetId # req[r].userId /\ RoleOf(req[r].userId) # "ADMIN")
               => notifications' = notifications
          /\ (req[r].pc = "npFindCurrent" /\ RoleOf(req[r].userId) # "ADMIN")
               => req'[r].pc = "done" /\ req'[r].status = 403]_vars
  /\ [](\A n \in BagToSet(notifications) : n.userId \in DOMAIN users)

\* u3, not an administrator, was refused a notification for u2; the
\* administrator's notification for u2 was stored
C25_Witness ==
  \E r1, r2 \in Req :
    /\ req[r1].kind = "notifyPost" /\ req[r1].pc = "done" /\ req[r1].status = 403
    /\ req[r1].userId = "u3" /\ req[r1].targetId = "u2"
    /\ req[r2].kind = "notifyPost" /\ req[r2].pc = "done" /\ req[r2].status = 201
    /\ req[r2].userId = "u1" /\ req[r2].targetId = "u2"
    /\ CountFor(notifications, "u2") = 2

\* the notifications of users other than u, with their numbers
OthersOf(ns, u) == [n \in {x \in BagToSet(ns) : x.userId # u} |-> ns[n]]

\* C26: a request of p to mark notifications read changes notifications of
\* p only and removes or adds none; with all:true its update leaves p no
\* unread notification and reports as updatedCount the number of p's
\* notifications that were unread; the unreadCount it returns is the number
\* of p's unread notifications when it is counted, and between the update
\* and the count that number leaves 0 only when a notification arrives.
C26_MarkReadOwnOnly ==
  /\ [][\A r \in Req : (req[r].kind = "markRead" /\ InFlight(r) /\ Moved(r)) =>
          LET p == req[r].userId
          IN  /\ OthersOf(notifications', p) = OthersOf(notifications, p)
              /\ CountFor(notifications', p) = CountFor(notifications, p)
              /\ UnreadFor(notifications', p) <= UnreadFor(notifications, p)
              /\ req[r].pc = "mrUpdateAll" =>
                   /\ UnreadFor(notifications', p) = 0
                   /\ req'[r].updatedCount = UnreadFor(notifications, p)
              /\ req[r].pc = "mrCount" =>
                   /\ req'[r].unreadCount = UnreadFor(notifications, p)
                   /\ notifications' = notifications]_vars
  /\ [][\A r \in Req :
          ( /\ req[r].kind = "markRead" /\ req[r].pc = "mrCount" /\ req[r].all
            /\ UnreadFor(notifications, req[r].userId) = 0
            /\ UnreadFor(notifications', req[r].userId) > 0 )
          => \E o \in Req : req[o].kind = "notifyPost" /\ req[o].pc = "npCreate" /\ Moved(o)]_vars

\* u2 marked everything read, one notification; another arrived before the
\* count, and the answer says one updated, one unread
C26_Witness ==
  \E r1, r2 \in Req :
    /\ req[r1].kind = "markRead" /\ req[r1].pc = "done" /\ req[r1].status = 200
    /\ req[r1].userId = "u2" /\ req[r1].all
    /\ req[r1].updatedCount = 1 /\ req[r1].unreadCount = 1
    /\ req[r2].kind = "notifyPost" /\ req[r2].pc = "done" /\ req[r2].status = 201
    /\ req[r2].targetId = "u2"
    /\ CountFor(notifications, "u2") = 2
    /\ UnreadFor(notifications, "u2") = 1

\* C28: the number of stored notifications goes down only in the deletion
\* cascade of a question or in the hard delete of an account: no request of
\* a user or an administrator that addresses notifications removes one.
C28_NotificationsAppendOnly ==
  [][Total(notifications') < Total(notifications) =>
        \E r \in Req : CascadeStep(r) \/ HardDeleteStep(r)]_vars

\* request r takes a step of its identity resolution
ResolutionStep(r) ==
  /\ req'[r].kind \in ResolverKinds /\ req'[r] # req[r]
  /\ req[r].pc # "meDeleteWrite"

\* C27: a resolution of identity that finds no valid session ends as
\* Unauthenticated (401), never as an internal error: without a token, with
\* a token that does not verify and with a token that has no Session row it
\* changes no stored state, and when two requests find the same session
\* expired both end as Unauthenticated although one of them only can delete
\* the Session row.
C27_NoSessionIsNormal ==
  [][\A r \in Req : ResolutionStep(r) =>
        /\ req'[r].pc = "done" => req'[r].status \in {200, 401}
        /\ (req[r].pc # "cleanup") =>
             <<users, questions, votes, comments, notifications, userRoles, sessions>>
               = <<users', questions', votes', comments', notifications', userRoles', sessions'>>]_vars

\* C29: every stored Vote row has value +1 or -1; a vote request with any
\* other value is answered 400 as soon as it is read, and the step that
\* reads it leaves the ledger as it was.
C29_VoteValueIsUnit ==
  /\ [](\A row \in BagToSet(votes) : row.value \in {1, -1})
  /\ [](\A r \in Req : (req[r].kind = "vote" /\ req[r].value \notin {0, 1, -1})
           => req[r].pc = "done" /\ req[r].status = 400)
  /\ [][\A r \in Req : (req'[r].kind = "vote" /\ req'[r].value \notin {0, 1, -1} /\ req'[r] # req[r])
           => votes' = votes]_vars

\* a vote of value 2 on another user's question was refused; a vote of +1 by
\* the same user on the same question was stored
C29_Witness ==
  \E r1, r2 \in Req :
    /\ req[r1].kind = "vote" /\ req[r1].pc = "done" /\ req[r1].status = 400 /\ req[r1].value = 2
    /\ req[r2].kind = "vote" /\ req[r2].pc = "done" /\ req[r2].status = 200 /\ req[r2].value = 1
    /\ req[r2].userId = "u1" /\ req[r2].questionId = 1
    /\ VoteFindUnique(votes, 1, "u1") = 1
    /\ UpCount(votes, 1) = 2

\* the write step of vote request r, when it succeeds
VoteWritten(r) == req[r].kind = "vote" /\ req[r].pc = "write" /\ req'[r].pc = "stats"

\* C30: the userVote a vote request returns is the state the request itself
\* left for (question, caller): its write step leaves no row after a
\* toggle-off and one row of the cast value after a create or a switch, and
\* the answer carries exactly that; in a serial run the answer agrees with
\* the ledger.
C30_UserVoteIsOwnState ==
  /\ [][\A r \in Req : VoteWritten(r) =>
          LET mine == VoteFindUnique(votes', req[r].questionId, req[r].userId)
          IN  /\ mine = (IF req[r].existingVote = req[r].value THEN NoRow ELSE req[r].value)
              /\ req'[r].updatedVote = mine]_vars
  /\ [][\A r \in Req : (req[r].kind = "vote" /\ req[r].pc = "stats" /\ Moved(r)) =>
          /\ req'[r].status = 200
          /\ req'[r].userVote = req[r].updatedVote]_vars
  /\ [](\A r \in Req : (req[r].kind = "vote" /\ req[r].pc = "done" /\ req[r].status = 200) =>
          /\ req[r].userVote = Toggle(req[r].row0, req[r].value) \/ req[r].paired \/ ~serial
          /\ serial /\ r = 1 =>
               req[r].userVote = VoteFindUnique(votes, req[r].questionId, req[r].userId))

\* u3 took back the +1 on question 1 and was answered null; u1 voted -1 on
\* question 2 and was answered -1
C30_Witness ==
  \E r1, r2 \in Req :
    /\ req[r1].kind = "vote" /\ req[r1].pc = "done" /\ req[r1].status = 200
    /\ req[r1].userId = "u3" /\ req[r1].questionId = 1 /\ req[r1].value = 1
    /\ req[r1].row0 = 1 /\ req[r1].userVote = NoRow
    /\ VoteFindUnique(votes, 1, "u3") = NoRow
    /\ req[r2].kind = "vote" /\ req[r2].pc = "done" /\ req[r2].status = 200
    /\ req[r2].userId = "u1" /\ req[r2].questionId = 2 /\ req[r2].value = -1
    /\ req[r2].userVote = -1
    /\ VoteFindUnique(votes, 2, "u1") = -1

\* C31: the deletion of question q has no effect outside q: its transaction
\* step leaves the votes and the comments of every other question as they
\* were, and every notification that a comment on another question produced
\* or that was created directly, whatever the title or id of q is.
C31_DeleteFrame ==
  [][\A r \in Req : CascadeStep(r) =>
        LET q == req[r].questionId
        IN  /\ VoteDeleteMany(votes', q) = VoteDeleteMany(votes, q)
            /\ CommentDeleteMany(comments', q) = CommentDeleteMany(comments, q)
            /\ QuestionDelete(questions', q) = QuestionDelete(questions, q)
            /\ \A n \in BagToSet(notifications) :
                 n.about # q => (n \in BagToSet(notifications') /\ notifications'[n] = notifications[n])]_vars

\* C32: expired sessions are reclaimed only when observed: a step of an
\* identity resolution removes a Session row only in its cleanup, only the
\* row of the token it was given, and only when that row's expiry has
\* passed; a resolution that obtains a principal, or whose token is absent
\* or does not verify, leaves the Session table as it was; and no sign-in
\* and no passing of time removes a Session row.
C32_LazyReclaim ==
  /\ [][\A r \in Req : ResolutionStep(r) =>
          /\ sessions' \subseteq sessions
          /\ \A x \in sessions \ sessions' :
               /\ req[r].pc = "cleanup"
               /\ x.sessionToken = req[r].token
               /\ SessionExpired(x, clock)
          /\ (Resolved(r) \/ req[r].pc # "cleanup") => sessions' = sessions]_vars
  /\ [][sessions \ sessions' # {} =>
          \E r \in Req : (ResolutionStep(r) /\ req[r].pc = "cleanup") \/ HardDeleteStep(r)]_vars

\* the expired session of one token was looked up and removed, while the
\* expired session of another token, which nobody looked up, is still stored
C32_Witness ==
  \E r \in Req :
    /\ req[r].kind = "authCheck" /\ req[r].pc = "done" /\ req[r].status = 401
    /\ req[r].token \in issued
    /\ SessionOf(req[r].token) = NoSession
    /\ \E x \in sessions : x.sessionToken # req[r].token /\ SessionExpired(x, clock)

\* the steps in which a request tests the role of its caller
AdminGate(r) == req[r].kind = "adminAction" /\ req[r].pc = "actIsAdmin" /\ Moved(r)
OwnerGate(r) == req[r].kind = "delete" /\ req[r].pc = "delFindUser" /\ Moved(r)

SignInMoves(r) == req[r].kind = "signin" /\ InFlight(r) /\ Moved(r)

\* C34: a sign-in with an unknown email, a wrong password or an account
\* without password is answered 401 at the check of the credentials, and no
\* step of a sign-in that is answered 401 adds a Session row; a Session row
\* is added only by a sign-in whose credentials passed; and when requests
\* run one after the other no Session row is ever added for a user whose
\* password a soft delete has nulled.
C34_FailedSignInNoSession ==
  /\ [][\A r \in Req : SignInMoves(r) =>
          /\ ( /\ req[r].pc = "signFindUser"
               /\ \/ req[r].userId \notin DOMAIN users
                  \/ req[r].userId \in scrubbed
                  \/ ~req[r].passwordOk )
               => req'[r].pc = "done" /\ req'[r].status = 401
          /\ req'[r].status = 401 => sessions' = sessions]_vars
  /\ [][sessions' \ sessions # {} =>
          \E r \in Req : /\ SignInMoves(r) /\ req[r].pc = "signCreate" /\ req[r].passwordOk
                         /\ req'[r].status = 200
                         /\ \A x \in sessions' \ sessions : x.userId = req[r].userId]_vars
  /\ [][serial => \A x \in sessions' \ sessions : x.userId \notin scrubbed]_vars

\* u2 deactivated the account and then presented the right password: 401, and
\* the Session table holds what it held before
C34_Witness ==
  \E r \in Req :
    /\ req[r].kind = "signin" /\ req[r].pc = "done" /\ req[r].status = 401
    /\ req[r].userId = "u2" /\ req[r].passwordOk
    /\ "u2" \in scrubbed /\ "u2" \in DOMAIN users
    /\ prev.kind = "meDelete" /\ prev.status = 200 /\ ~prev.hard
    /\ sessions = {SessionRow(Sign("u2", 0), 0)}

\* the soft delete of an existing account by request r
SoftDeleteStep(r) ==
  /\ req[r].kind = "meDelete" /\ req[r].pc = "meDeleteWrite" /\ ~req[r].hard /\ Moved(r)
  /\ req[r].userId \in DOMAIN users

\* C35: the soft delete of user u nulls the personal fields of u and nothing
\* else: its step is answered 200 and leaves the User rows with their ids
\* and roles, and every Question, Vote, Comment, Notification, role
\* assignment and Session, as they were; a later resolution with a session
\* of u that has not expired still obtains u as principal.
C35_SoftDeleteScrubsOnly ==
  /\ [][\A r \in Req : SoftDeleteStep(r) =>
          /\ req'[r].status = 200
          /\ scrubbed' = scrubbed \cup {req[r].userId}
          /\ <<users', questions', votes', comments', notifications', userRoles', sessions'>>
               = <<users, questions, votes, comments, notifications, userRoles, sessions>>]_vars
  /\ [][\A r \in Req :
          ( /\ req[r].kind \in ResolverKinds /\ req[r].pc = "findSession" /\ Moved(r)
            /\ SessionOf(req[r].token) # NoSession
            /\ ~SessionExpired(SessionOf(req[r].token), clock)
            /\ SessionOf(req[r].token).userId \in scrubbed )
          => Resolved(r) /\ req'[r].userId = SessionOf(req[r].token).userId]_vars

\* u2 deactivated the account, then asked who is signed in with the same
\* token and was answered as u2
C35_Witness ==
  /\ serial
  /\ prev.kind = "meDelete" /\ prev.pc = "done" /\ prev.status = 200 /\ ~prev.hard
  /\ req[1].kind = "authCheck" /\ req[1].pc = "done" /\ req[1].status = 200
  /\ req[1].userId = "u2" /\ req[1].token = prev.token
  /\ "u2" \in scrubbed
  /\ users["u2"] = "USER"
  /\ \E x \in sessions : x.userId = "u2"

\* the notifications of user u, as rows
OwnRows(ns, u) == {n \in Rows(ns) : n.userId = u}

\* C36: marking a list of notifications read is all or nothing on ownership:
\* when a listed notification is not stored or belongs to another user the
\* request is answered 404 and no step of it changes a notification; when
\* all of them belong to the caller, also when some are read already or one
\* is listed twice, the check lets the request go on, and after its update
\* every listed notification is read and no other has changed.
C36_MarkListAllOrNothing ==
  [][\A r \in Req : (req[r].kind = "markRead" /\ ~req[r].all /\ InFlight(r) /\ Moved(r)) =>
        /\ req[r].pc = "mrVerify" =>
             /\ notifications' = notifications
             /\ IF req[r].ids \subseteq OwnRows(notifications, req[r].userId)
                THEN req'[r].pc = "mrUpdateIds"
                ELSE req'[r].pc = "done" /\ req'[r].status = 404
        /\ req[r].pc = "mrUpdateIds" =>
             /\ \A n \in Rows(notifications') : n \in Rows(notifications) \/ n.isRead
             /\ \A n \in req[r].ids \cap Rows(notifications) : n.isRead \/ n \notin Rows(notifications')
             /\ \A n \in Rows(notifications) \ req[r].ids :
                  n \in Rows(notifications') /\ notifications'[n] >= notifications[n]]_vars

\* read notifications stored for one user
ReadFor(ns, u) == CountFor(ns, u) - UnreadFor(ns, u)

\* a step that stores a notification, one that marks notifications read, one that removes notifications
CreatesNotification(r) ==
  \/ req[r].kind = "notifyPost" /\ req[r].pc = "npCreate" /\ Moved(r)
  \/ req[r].kind = "comment" /\ req[r].pc = "comTx" /\ Moved(r)
MarksRead(r) == req[r].kind = "markRead" /\ req[r].pc \in {"mrUpdateAll", "mrUpdateIds"} /\ Moved(r)
RemovesNotifications(r) ==
  \/ req[r].kind = "notifyDelete" /\ req[r].pc \in {"ndDeleteAll", "ndDeleteIds"} /\ Moved(r)
  \/ req[r].kind = "clear" /\ req[r].pc = "clDelete" /\ Moved(r)
  \/ CascadeStep(r) \/ HardDeleteStep(r)

\* C37: isRead only ever goes from false to true: a notification is unread
\* when it is stored; unless notifications are removed in the step, no user
\* has fewer read notifications after a step than before; a user's unread
\* count goes up only in a step that stores a notification for that user,
\* by the number of rows stored, and goes down only in a step that marks
\* read or removes notifications.
C37_IsReadMonotonic ==
  [][\A u \in UserIds :
        /\ CountFor(notifications', u) > CountFor(notifications, u) =>
             /\ UnreadFor(notifications', u) - UnreadFor(notifications, u)
                  = CountFor(notifications', u) - CountFor(notifications, u)
             /\ \E r \in Req : CreatesNotification(r)
        /\ UnreadFor(notifications', u) > UnreadFor(notifications, u) =>
             CountFor(notifications', u) > CountFor(notifications, u)
        /\ ReadFor(notifications', u) < ReadFor(notifications, u) =>
             \E r \in Req : RemovesNotifications(r)
        /\ UnreadFor(notifications', u) < UnreadFor(notifications, u) =>
             \E r \in Req : MarksRead(r) \/ RemovesNotifications(r)]_vars

\* u2 marked the one notification read by its id; then another arrived: one
\* read, one unread
C37_Witness ==
  \E r1, r2 \in Req :
    /\ req[r1].kind = "markRead" /\ req[r1].pc = "done" /\ req[r1].status = 200
    /\ req[r1].userId = "u2" /\ ~req[r1].all /\ req[r1].updatedCount = 1
    /\ req[r1].unreadCount = 0
    /\ req[r2].kind = "notifyPost" /\ req[r2].pc = "done" /\ req[r2].status = 201
    /\ req[r2].targetId = "u2"
    /\ ReadFor(notifications, "u2") = 1
    /\ UnreadFor(notifications, "u2") = 1

\* C38: no two User rows share an email address; a signup is answered 201
\* or with a client error, never with an internal error, so of two
\* concurrent signups with one new address one creates the user and the
\* other is told that the address exists; and the row a signup creates has
\* role USER.
C38_SignupEmailUnique ==
  /\ [](\A a, b \in DOMAIN emails : (a # b /\ emails[a] # Null) => emails[a] # emails[b])
  /\ [](\A r \in Req : (req[r].kind \in SignupKinds /\ req[r].pc = "done")
           => req[r].status \in {201, 400, 409})
  /\ [][\A id \in DOMAIN users' \ DOMAIN users : users'[id] = "USER"]_vars

\* the deleteMany step of the removal of inactive users by request r
InactiveDeleteStep(r) == req[r].kind = "inactive" /\ req[r].pc = "inDeleteMany" /\ Moved(r)

\* C39: the removal of inactive users removes only users that have no
\* question, no comment and no vote when they are removed, also when such a
\* user posts between the selection and the deletion; and no question,
\* comment or vote is ever stored whose user is gone.
C39_InactiveOnly ==
  /\ [][\A r \in Req : InactiveDeleteStep(r) =>
          \A u \in DOMAIN users \ DOMAIN users' : u \in InactiveUsers]_vars
  /\ [](/\ \A q \in questions : q.authorId \in DOMAIN users
        /\ \A c \in comments : c.authorId \in DOMAIN users
        /\ \A row \in BagToSet(votes) : row.userId \in DOMAIN users)

====
